---- MODULE Spec2Model ----
(***************************************************************************)
(* A model of the review service's domain layer: ReviewService             *)
(* (services/review.service.js), the Review schema (models/review.model.js)*)
(* the admin controllers and the event publisher it calls.                 *)
(*                                                                         *)
(* Every handler is an async function.  It is cut into steps at the awaits *)
(* that touch the reviews collection or the transport, so two in-flight    *)
(* requests interleave exactly where Node can interleave them.  The        *)
(* collection is the map `reviews` from _id to document.                   *)
(*                                                                         *)
(* document.save() of a loaded document is Mongoose's delta update: only   *)
(* the paths whose value differs from the loaded one are written ($set),   *)
(* an array push is sent as $push, a splice as $set of the whole array     *)
(* guarded by the version key __v, a positional element change as a $set   *)
(* guarded by __v.                                                         *)
(*                                                                         *)
(* Record constructors list their fields in the order in which the field   *)
(* names first occur in this module, which is the order TLC keeps them in. *)
(***************************************************************************)
EXTENDS Integers, Sequences, FiniteSets, TLC

VARIABLES
  reviews,  \* the reviews collection: _id -> document
  nextId,   \* the next _id the driver generates
  req,      \* per request slot: position, arguments, local document, outcome
  env,      \* config.review flags, sidecar invoker and provider availability
  trail,    \* history: the last persisted votes, recorded when switched on
  mq        \* the messaging factory: its singleton and the providers it made

vars == <<reviews, nextId, req, env, trail, mq>>

----------------------------------------------------------------------------
(* Bounds of the model *)

MaxProcs == 2
MaxReviews == 2
\* requests are admitted on a review while its version key __v is below this
MaxVersion == 4
\* the provider instances the factory may make in one run
MaxInstances == 3
\* connection attempts of one provider
MaxAttempts == 3

Procs == 1..MaxProcs
SeqProcs == {1}
ReviewIds == 1..MaxReviews
\* ids a request may name: the allocated ones and one that never exists
AnyReviewId == 0..MaxReviews

Users == {"u1", "u2", "u3"}
Products == {"p1", "p2"}

----------------------------------------------------------------------------
(* Values *)

Absent == "undefined"
NoCode == "none"
VoteTypes == {"helpful", "notHelpful"}
Statuses == {"pending", "approved", "rejected", "hidden"}
MinRating == 1
MaxRating == 5

\* A JWT user id is a string; the schema casts Review.userId to an ObjectId.
Str(u) == <<"String", u>>
IdToString(x) == <<"String", x[2]>>
CastObjectId(x) == <<"ObjectId", x[2]>>
\* JavaScript ===: an ObjectId is never strictly equal to a string
StrictEq(a, b) == a = b

\* a stored review as createReview builds it
NewReview(productId, u, rating, title, comment, isVerifiedPurchase, status) ==
  [productId |-> productId, rating |-> rating, title |-> title, comment |-> comment,
   isVerifiedPurchase |-> isVerifiedPurchase, status |-> status, userId |-> CastObjectId(u),
   helpful |-> 0, notHelpful |-> 0, userVotes |-> <<>>,
   createdBy |-> u, updatedBy |-> u, v |-> 0]

\* what the service passes to `new ErrorResponse(message, statusCode, code)`
ErrorResponse(status, code) == [status |-> status, code |-> code, kind |-> "ErrorResponse"]
\* an error that is not an ErrorResponse (driver, Mongoose, TypeError)
RawError(name) == [status |-> 0, code |-> NoCode, kind |-> name]
Success(status) == [status |-> status, code |-> NoCode, kind |-> "ok"]
\* a controller answering res.status(s).json({success: false, message})
HttpFailure(status) == [status |-> status, code |-> NoCode, kind |-> "http"]
NoResult == [status |-> 0, code |-> NoCode, kind |-> "none"]

NoDoc == [none |-> TRUE]
NoUser == [userId |-> Absent, roles |-> {}, isAdmin |-> FALSE, isActive |-> Absent]
NoData == [none |-> TRUE]
NoArrayOp == [kind |-> "none", idx |-> 0]
NoAnswers == [product |-> "none", purchase |-> "none"]

\* config.review is absent, no Dapr sidecar answers, a publisher provider exists
DefaultEnv ==
  [requirePurchase |-> FALSE, autoApproveVerified |-> FALSE, moderationRequired |-> FALSE,
   invoker |-> FALSE, provider |-> TRUE]

\* the history of votes: switched off, nothing recorded
NoTrail == [on |-> FALSE, votes |-> << >>]

\* the messaging module as loaded: `let messagingProvider = null`, no
\* provider made; MESSAGING_PROVIDER unset, the synchronous factory
NoMq ==
  [factory |-> "sync", family |-> Absent, singleton |-> 0, created |-> 0,
   closes |-> << >>, handed |-> {}, made |-> 0, connected |-> FALSE, traced |-> FALSE,
   connection |-> 0, channel |-> 0, promise |-> 0, stage |-> << >>, open |-> {},
   channels |-> {}, client |-> 0, sender |-> 0]

\* no envelope was handed to a transport
NoEvent ==
  [productId |-> Absent, rating |-> 0, isVerifiedPurchase |-> FALSE, userId |-> Absent,
   topic |-> "none", type |-> "none", reviewId |-> 0,
   metadata |-> [userId |-> Absent, correlationId |-> Absent]]

Stars == MinRating..MaxRating

\* the rating details of a product without approved reviews: `agg` is {} and
\* every field falls back to 0; averageRating is held in tenths
NoRatingDetails ==
  [averageRating |-> 0, totalReviews |-> 0, verifiedReviewCount |-> 0,
   ratingDistribution |-> [k \in Stars |-> 0]]

IdleReq ==
  [pc |-> "idle", op |-> "none", user |-> NoUser, rid |-> 0, data |-> NoData,
   loaded |-> NoDoc, doc |-> NoDoc, aop |-> NoArrayOp,
   ext |-> NoAnswers, overlap |-> {}, found |-> FALSE, dupKey |-> FALSE, verified |-> FALSE,
   persisted |-> FALSE, publish |-> "none", result |-> NoResult, sent |-> FALSE,
   returned |-> 0, event |-> NoEvent, removed |-> NoDoc, ratingDetails |-> NoRatingDetails]

\* the handler has returned or thrown: the slot keeps the request's arguments
\* and outcome until it takes the next request; its local document is dropped
Done(r, result) ==
  [r EXCEPT !.pc = "done", !.result = result, !.loaded = NoDoc, !.doc = NoDoc]

\* history: the slots whose request had loaded review r and not yet saved it
InFlightOn(p, r) == {q \in Procs \ {p} : req[q].pc = "save" /\ req[q].rid = r}

\* slot p takes request `new`: it no longer overlaps the requests of the others
Admit(p, new) ==
  [q \in Procs |-> IF q = p THEN new ELSE [req[q] EXCEPT !.overlap = @ \ {p}]]

\* the slot can take a request
Free(p) == req[p].pc \in {"idle", "done"}

----------------------------------------------------------------------------
(* The Review schema and document.save() *)

NonEmpty(t) == t \notin {Absent, "", " "}

\* schema validators run by save(): rating 1..5, vote counters min 0
SchemaValid(doc) ==
  /\ doc.rating \in MinRating..MaxRating
  /\ doc.helpful >= 0
  /\ doc.notHelpful >= 0

\* pre('save'): a review needs a title or a comment
PreSaveOk(doc) == NonEmpty(doc.title) \/ NonEmpty(doc.comment)

\* pre('save'): this.updatedBy = this.userId
PreSaveStamp(doc) == [doc EXCEPT !.updatedBy = IdToString(doc.userId)]

RemoveAt(s, i) == [k \in 1..(Len(s) - 1) |-> IF k < i THEN s[k] ELSE s[k + 1]]

\* the version-key guard of the update save() sends: a splice ($set of the
\* array) and a positional element change carry {__v: loaded.__v}
VersionWhere(aop) == aop.kind \in {"splice", "set"}
VersionInc(aop) == aop.kind \in {"splice", "push"}

\* the stored array after the update's array operator
ApplyArrayOp(stored, local, aop) ==
  CASE aop.kind = "push" -> Append(stored.userVotes, local.userVotes[Len(local.userVotes)])
    [] aop.kind = "splice" -> local.userVotes
    [] aop.kind = "set" -> [stored.userVotes EXCEPT ![aop.idx] = local.userVotes[aop.idx]]
    [] OTHER -> stored.userVotes

\* save() writing the whole local document over the stored one
SaveWholeDocument(stored, loaded, local, aop) ==
  [f \in DOMAIN stored |->
     IF f = "userVotes" THEN ApplyArrayOp(stored, local, aop)
     ELSE IF f = "v" THEN (IF VersionInc(aop) THEN stored.v + 1 ELSE stored.v)
     ELSE local[f]]

\* the stored document after save() of `local`, loaded as `loaded`
SaveDelta(stored, loaded, local, aop) ==
  [f \in DOMAIN stored |->
     IF f = "userVotes" THEN ApplyArrayOp(stored, local, aop)
     ELSE IF f = "v" THEN (IF VersionInc(aop) THEN stored.v + 1 ELSE stored.v)
     ELSE IF local[f] # loaded[f] THEN local[f]
     ELSE stored[f]]

\* the collection after the update save() sends for document rid
SaveWrite(rid, loaded, local, aop) ==
  LET stored == IF rid \in DOMAIN reviews THEN reviews[rid] ELSE loaded IN
  (rid :> SaveDelta(stored, loaded, local, aop)) @@ reviews

\* save() sending its update as an upsert: a document that is gone is written
SaveOutcomeUpsert(rid, loaded, local, aop) ==
  IF ~SchemaValid(local) THEN "ValidationError"
  ELSE IF ~PreSaveOk(local) THEN "Error"
  ELSE "ok"

\* the outcome of save() on a loaded document: "ok" or the error it rejects with
SaveOutcome(rid, loaded, local, aop) ==
  IF ~SchemaValid(local) THEN "ValidationError"
  ELSE IF ~PreSaveOk(local) THEN "Error"
  ELSE IF VersionWhere(aop) /\ (rid \notin DOMAIN reviews \/ reviews[rid].v # loaded.v)
    THEN "VersionError"
  ELSE IF rid \notin DOMAIN reviews THEN "DocumentNotFoundError"
  ELSE "ok"

----------------------------------------------------------------------------
(* voteOnReview *)

\* Array.prototype.findIndex, 1-based; 0 stands for -1
FindIndex(votes, uid) ==
  IF \E i \in 1..Len(votes) : votes[i].userId = uid
    THEN CHOOSE i \in 1..Len(votes) :
           /\ votes[i].userId = uid
           /\ \A j \in 1..(i - 1) : votes[j].userId # uid
    ELSE 0

\* VoteMutate with the flip forgetting to decrement the old category
VoteMutateNoDecrement(doc, uid, voteType) ==
  LET i == FindIndex(doc.userVotes, uid) IN
  IF i > 0
    THEN LET oldVote == doc.userVotes[i].vote IN
         IF oldVote = voteType
           THEN [doc EXCEPT !.userVotes = RemoveAt(@, i), ![oldVote] = @ - 1]
           ELSE [doc EXCEPT !.userVotes[i].vote = voteType, ![voteType] = @ + 1]
    ELSE [doc EXCEPT !.userVotes = Append(@, [userId |-> uid, vote |-> voteType]),
                     ![voteType] = @ + 1]

\* VoteMutate with the retraction removing the record and keeping the counter
VoteMutateRetractKeepsCounter(doc, uid, voteType) ==
  LET i == FindIndex(doc.userVotes, uid) IN
  IF i > 0
    THEN LET oldVote == doc.userVotes[i].vote IN
         IF oldVote = voteType
           THEN [doc EXCEPT !.userVotes = RemoveAt(@, i)]
           ELSE [[doc EXCEPT !.userVotes[i].vote = voteType, ![oldVote] = @ - 1]
                   EXCEPT ![voteType] = @ + 1]
    ELSE [doc EXCEPT !.userVotes = Append(@, [userId |-> uid, vote |-> voteType]),
                     ![voteType] = @ + 1]

\* VoteMutate with the flip moving the counters and keeping the record's vote
VoteMutateFlipKeepsRecord(doc, uid, voteType) ==
  LET i == FindIndex(doc.userVotes, uid) IN
  IF i > 0
    THEN LET oldVote == doc.userVotes[i].vote IN
         IF oldVote = voteType
           THEN [doc EXCEPT !.userVotes = RemoveAt(@, i), ![oldVote] = @ - 1]
           ELSE [[doc EXCEPT ![oldVote] = @ - 1] EXCEPT ![voteType] = @ + 1]
    ELSE [doc EXCEPT !.userVotes = Append(@, [userId |-> uid, vote |-> voteType]),
                     ![voteType] = @ + 1]

\* the in-memory mutation of the loaded review
VoteMutate(doc, uid, voteType) ==
  LET i == FindIndex(doc.userVotes, uid) IN
  IF i > 0
    THEN LET oldVote == doc.userVotes[i].vote IN
         IF oldVote = voteType
           THEN [doc EXCEPT !.userVotes = RemoveAt(@, i), ![oldVote] = @ - 1]
           ELSE [[doc EXCEPT !.userVotes[i].vote = voteType, ![oldVote] = @ - 1]
                   EXCEPT ![voteType] = @ + 1]
    ELSE [doc EXCEPT !.userVotes = Append(@, [userId |-> uid, vote |-> voteType]),
                     ![voteType] = @ + 1]

\* the array operator Mongoose registers for that mutation
VoteArrayOp(doc, uid, voteType) ==
  LET i == FindIndex(doc.userVotes, uid) IN
  IF i > 0
    THEN IF doc.userVotes[i].vote = voteType
           THEN [kind |-> "splice", idx |-> i]
           ELSE [kind |-> "set", idx |-> i]
    ELSE [kind |-> "push", idx |-> 0]

\* validate the vote type, findById, the own-review check, the mutation
VoteLoad(p, r, u, voteType) ==
  /\ Free(p)
  /\ r \in DOMAIN reviews => reviews[r].v < MaxVersion
  /\ LET base == [IdleReq EXCEPT !.op = "vote", !.rid = r, !.user = [userId |-> Str(u)],
                                 !.data = [voteType |-> voteType]] IN
     req' = Admit(p,
       IF voteType \notin VoteTypes THEN Done(base, ErrorResponse(400, NoCode))
       ELSE IF r \notin DOMAIN reviews THEN Done(base, ErrorResponse(404, NoCode))
       ELSE IF StrictEq(reviews[r].userId, Str(u)) THEN Done(base, ErrorResponse(403, NoCode))
       ELSE [base EXCEPT !.pc = "save", !.loaded = reviews[r],
                         !.overlap = InFlightOn(p, r),
                         !.doc = PreSaveStamp(VoteMutate(reviews[r], Str(u), voteType)),
                         !.aop = VoteArrayOp(reviews[r], Str(u), voteType)])
  /\ UNCHANGED <<reviews, nextId, env, trail, mq>>

\* the helpfulness state of a review: both counters and the voter records
Helpfulness(doc) ==
  [helpful |-> doc.helpful, notHelpful |-> doc.notHelpful, userVotes |-> doc.userVotes]

KeepLastTwo(s) == IF Len(s) > 2 THEN Tail(s) ELSE s

\* history: the vote that request r persists, and the stored state it changes
Recorded(r) ==
  IF trail.on
    THEN [trail EXCEPT !.votes = KeepLastTwo(Append(@,
            [userId |-> r.user.userId, rid |-> r.rid, voteType |-> r.data.voteType,
             before |-> Helpfulness(reviews[r.rid])]))]
    ELSE trail

\* await review.save(); return review
VoteSave(p) ==
  /\ req[p].pc = "save"
  /\ req[p].op = "vote"
  /\ LET r == req[p]
         out == SaveOutcome(r.rid, r.loaded, r.doc, r.aop) IN
     IF out = "ok"
       THEN /\ reviews' = SaveWrite(r.rid, r.loaded, r.doc, r.aop)
            /\ req' = [req EXCEPT ![p] = Done([r EXCEPT !.persisted = TRUE], Success(200))]
            /\ trail' = Recorded(r)
       ELSE /\ req' = [req EXCEPT ![p] = Done(r, RawError(out))]
            /\ UNCHANGED <<reviews, trail>>
  /\ UNCHANGED <<nextId, env, mq>>

----------------------------------------------------------------------------
(* createReview *)

Pass == NoResult

\* validateUserCanCreateReview with the two checks in the other order
ValidateUserInactiveFirst(user) ==
  IF user.isActive = "false"
    THEN ErrorResponse(403, "USER_INACTIVE")
  ELSE IF "admin" \in user.roles \/ user.isAdmin
    THEN ErrorResponse(403, "ADMIN_CANNOT_REVIEW")
  ELSE Pass

\* validateUserCanCreateReview: admins may not review, nor inactive accounts
ValidateUserCanCreateReview(user) ==
  IF "admin" \in user.roles \/ user.isAdmin
    THEN ErrorResponse(403, "ADMIN_CANNOT_REVIEW")
  ELSE IF user.isActive = "false"
    THEN ErrorResponse(403, "USER_INACTIVE")
  ELSE Pass

\* Review.findOne({productId, userId}): the query casts userId to an ObjectId
FindOne(productId, userId) ==
  {r \in DOMAIN reviews :
     reviews[r].productId = productId /\ reviews[r].userId = CastObjectId(userId)}

\* error.message includes '404' or 'not found': the product service's 404
\* answer, and an error of the transport whose text holds either
MessageNamesNotFound(answer) == answer \in {"error404", "unreachable404"}

\* validateProduct: TRUE lets the creation go on, FALSE is a 404
ValidateProduct(answer) ==
  IF ~env.invoker THEN TRUE
  ELSE CASE answer = "exists" -> TRUE
         [] answer = "missing" -> FALSE
         [] MessageNamesNotFound(answer) -> FALSE
         [] OTHER -> TRUE

\* validatePurchase answering true when the order service fails
ValidatePurchaseFailOpen(answer) ==
  IF ~env.invoker THEN FALSE
  ELSE answer # "invalid"

\* validatePurchase: the isVerifiedPurchase flag
ValidatePurchase(answer) ==
  IF ~env.invoker THEN FALSE
  ELSE answer = "valid"

Truthy(x) == x \notin {Absent, ""}

\* determineInitialStatus asking the moderation policy first
DetermineInitialStatusModerationFirst(isVerifiedPurchase) ==
  IF env.moderationRequired THEN "pending"
  ELSE "approved"

\* determineInitialStatus
DetermineInitialStatus(isVerifiedPurchase) ==
  IF env.autoApproveVerified /\ isVerifiedPurchase THEN "approved"
  ELSE IF env.moderationRequired THEN "pending"
  ELSE "approved"

\* the body carries values of its own for the fields the service sets
Forges(reviewData) == "forged" \in DOMAIN reviewData

\* new Review({userId: user.userId, ..., ...reviewData}): with the spread
\* last, the keys of the body replace those of the service
ConstructBodyLast(reviewData, user, isVerifiedPurchase, status) ==
  LET doc == NewReview(reviewData.productId, user.userId, reviewData.rating,
                       reviewData.title, reviewData.comment, isVerifiedPurchase, status) IN
  IF Forges(reviewData)
    THEN [doc EXCEPT !.isVerifiedPurchase = reviewData.forged.isVerifiedPurchase,
                     !.status = reviewData.forged.status,
                     !.userId = CastObjectId(reviewData.forged.userId),
                     !.createdBy = reviewData.forged.createdBy,
                     !.updatedBy = reviewData.forged.updatedBy]
    ELSE doc

\* new Review({...reviewData, userId: user.userId, username, isVerifiedPurchase,
\* status, createdBy, updatedBy, metadata}): the keys written after the
\* spread replace whatever the body gave for them
Construct(reviewData, user, isVerifiedPurchase, status) ==
  NewReview(reviewData.productId, user.userId, reviewData.rating,
            reviewData.title, reviewData.comment, isVerifiedPurchase, status)

\* creations that passed the duplicate check and have not yet inserted
CreatesInFlight(p) ==
  {q \in Procs \ {p} : req[q].op = "create" /\ req[q].pc \in {"external", "insert"}}

\* validateUserCanCreateReview, then the findOne duplicate check
CreateBegin(p, user, data) ==
  /\ Free(p)
  /\ nextId + Cardinality(CreatesInFlight(p)) <= MaxReviews
  /\ LET base == [IdleReq EXCEPT !.op = "create", !.user = user, !.data = data]
         gate == ValidateUserCanCreateReview(user) IN
     req' = Admit(p,
       IF gate # Pass THEN Done(base, gate)
       ELSE IF FindOne(data.productId, user.userId) # {}
         THEN Done([base EXCEPT !.found = TRUE], ErrorResponse(409, NoCode))
       ELSE [base EXCEPT !.pc = "external"])
  /\ UNCHANGED <<reviews, nextId, env, trail, mq>>

\* validateProduct, validatePurchase, the require-purchase policy, the
\* initial status and the construction of the document
CreateExternal(p, productAnswer, purchaseAnswer) ==
  /\ req[p].pc = "external"
  /\ LET r == [req[p] EXCEPT !.ext = [product |-> productAnswer, purchase |-> purchaseAnswer]]
         isVerifiedPurchase ==
           IF Truthy(req[p].data.orderReference) THEN ValidatePurchase(purchaseAnswer) ELSE FALSE IN
     req' = [req EXCEPT ![p] =
       IF ~ValidateProduct(productAnswer) THEN Done(r, ErrorResponse(404, NoCode))
       ELSE IF env.requirePurchase /\ ~isVerifiedPurchase
         THEN Done(r, ErrorResponse(403, "PURCHASE_REQUIRED"))
       ELSE [r EXCEPT !.pc = "insert", !.verified = isVerifiedPurchase,
                      !.doc = Construct(r.data, r.user, isVerifiedPurchase,
                                        DetermineInitialStatus(isVerifiedPurchase))]]
  /\ UNCHANGED <<reviews, nextId, env, trail, mq>>

\* the schema without its unique index
UniqueIndexMissing(doc) == TRUE

\* the unique index {productId: 1, userId: 1} refuses a second document
UniqueIndexAllows(doc) ==
  \A r \in DOMAIN reviews :
    ~(reviews[r].productId = doc.productId /\ reviews[r].userId = doc.userId)

\* the outcome of save() on a new document
InsertOutcome(doc) ==
  IF ~SchemaValid(doc) THEN "ValidationError"
  ELSE IF ~PreSaveOk(doc) THEN "Error"
  ELSE IF ~UniqueIndexAllows(doc) THEN "MongoServerError"
  ELSE "ok"

\* createReview publishing whether or not save() succeeded
CreateSavePublishAlways(p) ==
  /\ req[p].pc = "insert"
  /\ LET r == req[p]
         out == InsertOutcome(r.doc) IN
     IF out = "ok"
       THEN /\ reviews' = reviews @@ (nextId :> PreSaveStamp(r.doc))
            /\ nextId' = nextId + 1
            /\ req' = [req EXCEPT ![p] =
                 [r EXCEPT !.pc = "publish", !.rid = nextId, !.persisted = TRUE,
                           !.loaded = PreSaveStamp(r.doc)]]
       ELSE /\ req' = [req EXCEPT ![p] =
                 [r EXCEPT !.pc = "publish", !.dupKey = (out = "MongoServerError"),
                           !.loaded = r.doc]]
            /\ UNCHANGED <<reviews, nextId>>
  /\ UNCHANGED <<env, trail, mq>>

\* const savedReview = await review.save()
CreateSave(p) ==
  /\ req[p].pc = "insert"
  /\ LET r == req[p]
         out == InsertOutcome(r.doc) IN
     IF out = "ok"
       THEN /\ reviews' = reviews @@ (nextId :> PreSaveStamp(r.doc))
            /\ nextId' = nextId + 1
            /\ req' = [req EXCEPT ![p] =
                 [r EXCEPT !.pc = "publish", !.rid = nextId, !.persisted = TRUE,
                           !.loaded = PreSaveStamp(r.doc)]]
       ELSE /\ req' = [req EXCEPT ![p] =
                 Done([r EXCEPT !.dupKey = (out = "MongoServerError")], RawError(out))]
            /\ UNCHANGED <<reviews, nextId>>
  /\ UNCHANGED <<env, trail, mq>>

----------------------------------------------------------------------------
(* The event publish that ends createReview, deleteReview and approveReview *)

\* publishReview<X>() without the check of this.provider
PublishOutcomesUnguarded(op) ==
  IF op = "approve" THEN {"threw"}
  ELSE IF ~env.provider THEN {"threw"}
  ELSE {"true", "false", "threw"}

\* what eventPublisher.publishReview<X>() can do: resolve true or false, or
\* throw.  Without a provider it resolves false; publishReviewApproved is not
\* a method of the publisher, so calling it throws a TypeError.
PublishOutcomes(op) ==
  IF op = "approve" THEN {"threw"}
  ELSE IF ~env.provider THEN {"false"}
  ELSE {"true", "false", "threw"}

\* the handler with the try/catch around the publish removed
ResultAfterPublishUncaught(op, outcome) ==
  IF outcome = "threw" THEN RawError("Error")
  ELSE IF op = "create" THEN Success(201) ELSE Success(200)

\* try { await eventPublisher.publish...() } catch { log.error(...) }; return
ResultAfterPublish(op, outcome) ==
  IF op = "create" THEN Success(201) ELSE Success(200)

\* whether the call reaches this.provider.publishEvent
Transport(op) == op # "approve" /\ env.provider

Families == {"dapr", "rabbitmq", "servicebus"}

\* String.prototype.toLowerCase that lowers nothing
KeepCase(str) == str

\* String.prototype.toLowerCase on the values MESSAGING_PROVIDER takes here
ToLowerCase(str) ==
  CASE str = "DAPR" -> "dapr"
    [] str = "RabbitMQ" -> "rabbitmq"
    [] OTHER -> str

\* (process.env.MESSAGING_PROVIDER || 'dapr').toLowerCase()
ProviderType(v) == ToLowerCase(IF Truthy(v) THEN v ELSE "dapr")

\* the envelope type of each publish method
EventType(op) ==
  CASE op \in {"create", "publishReviewCreated"} -> "review.created"
    [] op \in {"update", "publishReviewUpdated"} -> "review.updated"
    [] op \in {"delete", "publishReviewDeleted"} -> "review.deleted"
    [] OTHER -> "none"

\* a topic named after the event type
TopicPerType(type) == type

\* this.provider.publishEvent('review-events', cloudEvent, traceId)
Topic(type) == "review-events"

\* the cloudEvent as the transport gets it: type, data and metadata built by
\* the publish method from the review it is given; DaprProvider adds the
\* trace id to the metadata as correlationId when there is a trace id, the
\* other providers pass it beside the message
Envelope(op, rid, doc) ==
  [productId |-> doc.productId, rating |-> doc.rating,
   isVerifiedPurchase |-> doc.isVerifiedPurchase,
   userId |-> IdToString(doc.userId),
   topic |-> Topic(EventType(op)), type |-> EventType(op), reviewId |-> rid,
   metadata |-> [userId |-> IdToString(doc.userId),
                 correlationId |-> IF mq.traced /\ ProviderType(mq.family) = "dapr"
                                     THEN "traceId" ELSE Absent]]

\* the review read again from the store when the event is built
SnapshotRefetched(r) ==
  IF r.rid \in DOMAIN reviews THEN reviews[r.rid]
  ELSE NewReview(Absent, Str(Absent), 0, Absent, Absent, FALSE, Absent)

\* the review the handler passes to the publisher: the document it holds,
\* saved by createReview, loaded by deleteReview before the removal
Snapshot(r) == r.loaded

\* the envelope handed to the transport, if any
Handed(op, rid, doc) == IF Transport(op) THEN Envelope(op, rid, doc) ELSE NoEvent

Publish(p, outcome) ==
  /\ req[p].pc = "publish"
  /\ outcome \in PublishOutcomes(req[p].op)
  /\ req' = [req EXCEPT ![p] =
       Done([req[p] EXCEPT !.publish = outcome, !.sent = Transport(req[p].op),
                           !.event = Handed(req[p].op, req[p].rid, Snapshot(req[p]))],
            ResultAfterPublish(req[p].op, outcome))]
  /\ UNCHANGED <<reviews, nextId, env, trail, mq>>

\* the three publish methods of the publisher
PublisherOps == {"publishReviewCreated", "publishReviewUpdated", "publishReviewDeleted"}

\* the plain review object a caller of the publisher passes
SampleReview == NewReview("p1", Str("u1"), 5, "t", "c", TRUE, "approved")

\* a publish method called by itself: it returns what the transport returned
\* and throws what the transport threw
PublishReviewEvent(p, op, outcome) ==
  /\ Free(p)
  /\ outcome \in PublishOutcomes(op)
  /\ LET base == [IdleReq EXCEPT !.op = op, !.publish = outcome, !.sent = Transport(op),
                                 !.event = Handed(op, 1, SampleReview)] IN
     req' = Admit(p, Done(base, IF outcome = "threw" THEN RawError("Error") ELSE Success(0)))
  /\ UNCHANGED <<reviews, nextId, env, trail, mq>>

\* initialize(): this.provider = getMessagingProvider(); a failure is logged
\* and leaves the provider as it was
Initialize(ok) ==
  /\ env' = [env EXCEPT !.provider = IF ok THEN TRUE ELSE @]
  /\ UNCHANGED <<reviews, nextId, req, trail, mq>>

\* close(): with a provider, await provider.close() and then forget it; when
\* provider.close() throws the provider is kept
Close(ok) ==
  /\ env.provider
  /\ env' = [env EXCEPT !.provider = ~ok]
  /\ UNCHANGED <<reviews, nextId, req, trail, mq>>

----------------------------------------------------------------------------
(* updateReview and deleteReview *)

\* review.userId.toString() !== userId.toString()
NotOwner(doc, userId) == IdToString(doc.userId) # IdToString(userId)

\* findById, the ownership check, the assignment of the allowed fields, then
\* `review.metadata.updatedAt = new Date()`: the schema has no metadata path,
\* review.metadata is undefined and the assignment throws a TypeError, so the
\* status reset, the save and the publish that follow are never reached
UpdateReview(p, r, u, updateData) ==
  /\ Free(p)
  /\ LET base == [IdleReq EXCEPT !.op = "update", !.rid = r, !.user = [userId |-> Str(u)],
                                 !.data = updateData] IN
     req' = Admit(p,
       IF r \notin DOMAIN reviews THEN Done(base, ErrorResponse(404, NoCode))
       ELSE IF NotOwner(reviews[r], Str(u)) THEN Done(base, ErrorResponse(403, NoCode))
       ELSE Done(base, RawError("TypeError")))
  /\ UNCHANGED <<reviews, nextId, env, trail, mq>>

\* findById and the ownership check of deleteReview
DeleteLoad(p, r, u) ==
  /\ Free(p)
  /\ LET base == [IdleReq EXCEPT !.op = "delete", !.rid = r, !.user = [userId |-> Str(u)]] IN
     req' = Admit(p,
       IF r \notin DOMAIN reviews THEN Done(base, ErrorResponse(404, NoCode))
       ELSE IF NotOwner(reviews[r], Str(u)) THEN Done(base, ErrorResponse(403, NoCode))
       ELSE [base EXCEPT !.pc = "remove", !.loaded = reviews[r]])
  /\ UNCHANGED <<reviews, nextId, env, trail, mq>>

\* history: what a review.deleted event tells of a document
Identity(doc) ==
  [productId |-> doc.productId, rating |-> doc.rating,
   isVerifiedPurchase |-> doc.isVerifiedPurchase, userId |-> doc.userId]

\* await Review.findByIdAndDelete(reviewId); the document it removed is kept
\* as history
DeleteRemove(p) ==
  /\ req[p].pc = "remove"
  /\ reviews' = [r \in DOMAIN reviews \ {req[p].rid} |-> reviews[r]]
  /\ req' = [req EXCEPT ![p] =
       [@ EXCEPT !.pc = "publish", !.persisted = TRUE,
                 !.removed = IF req[p].rid \in DOMAIN reviews
                               THEN Identity(reviews[req[p].rid])
                               ELSE NoDoc]]
  /\ UNCHANGED <<nextId, env, trail, mq>>

\* getReviewById: Review.findById(reviewId).lean(), 404 when there is none
GetReviewById(p, r, u) ==
  /\ Free(p)
  /\ LET base == [IdleReq EXCEPT !.op = "get", !.rid = r, !.user = [userId |-> Str(u)]] IN
     req' = Admit(p,
       IF r \notin DOMAIN reviews THEN Done(base, ErrorResponse(404, NoCode))
       ELSE Done(base, Success(200)))
  /\ UNCHANGED <<reviews, nextId, env, trail, mq>>

----------------------------------------------------------------------------
(* The connections of RabbitMQProvider and ServiceBusProvider, step by step.
   mq.stage[a] is how far the a-th initialisation has come; a connection, a
   channel, a client and a sender carry the number of the initialisation
   that made them, 0 is null; mq.open and mq.channels are the connections
   and channels open at the broker; a publishEvent keeps in `returned` the
   initialisation it awaits, 0 when _initializeConnection returned at once *)

Settled(a) == mq.stage[a] \in {"ok", "failed"}

\* publishEvent up to `await this._initializeConnection()`: nothing to do
\* with a channel, the pending promise if there is one, a new attempt
\* otherwise (the promise is stored before the attempt's first await ends)
RabbitPublishEvent(p) ==
  /\ Free(p)
  /\ mq.family = "rabbitmq"
  /\ LET base == [IdleReq EXCEPT !.pc = "wait", !.op = "publishEvent"] IN
     IF mq.channel # 0
       THEN /\ req' = Admit(p, base)
            /\ UNCHANGED mq
     ELSE IF mq.promise # 0
       THEN /\ req' = Admit(p, [base EXCEPT !.returned = mq.promise])
            /\ UNCHANGED mq
     ELSE /\ Len(mq.stage) < MaxAttempts
          /\ mq' = [mq EXCEPT !.promise = Len(mq.stage) + 1, !.stage = Append(@, "connect")]
          /\ req' = Admit(p, [base EXCEPT !.returned = Len(mq.stage) + 1])
  /\ UNCHANGED <<reviews, nextId, env, trail>>

\* the catch of the attempt: this._connectionPromise = null, rethrow
AttemptFailed(a) == [mq EXCEPT !.promise = 0, !.stage[a] = "failed"]

\* this.connection = await amqp.connect(this.url)
RabbitConnect(a, ok) ==
  /\ a \in DOMAIN mq.stage /\ mq.stage[a] = "connect"
  /\ mq' = IF ok THEN [mq EXCEPT !.connection = a, !.stage[a] = "channel", !.open = @ \cup {a}]
            ELSE AttemptFailed(a)
  /\ UNCHANGED <<reviews, nextId, req, env, trail>>

\* this.channel = await this.connection.createChannel(), on the connection
\* the attempt has just stored; it fails on a connection closed meanwhile
RabbitCreateChannel(a, ok) ==
  /\ a \in DOMAIN mq.stage /\ mq.stage[a] = "channel"
  /\ ok => a \in mq.open
  /\ mq' = IF ok THEN [mq EXCEPT !.channel = a, !.stage[a] = "assert", !.channels = @ \cup {a}]
            ELSE AttemptFailed(a)
  /\ UNCHANGED <<reviews, nextId, req, env, trail>>

\* await this.channel.assertExchange(...), on the channel just stored
RabbitAssertExchange(a, ok) ==
  /\ a \in DOMAIN mq.stage /\ mq.stage[a] = "assert"
  /\ ok => a \in mq.channels
  /\ mq' = IF ok THEN [mq EXCEPT !.stage[a] = "ok"] ELSE AttemptFailed(a)
  /\ UNCHANGED <<reviews, nextId, req, env, trail>>

\* publishEvent after the await: false when the awaited attempt failed or
\* there is no channel, else channel.publish on this.channel, which throws
\* on a closed channel
RabbitPublish(p, outcome) ==
  /\ req[p].pc = "wait" /\ req[p].op = "publishEvent"
  /\ mq.family = "rabbitmq"
  /\ req[p].returned # 0 => Settled(req[p].returned)
  /\ LET reached == (req[p].returned # 0 => mq.stage[req[p].returned] = "ok") /\ mq.channel # 0
         done == reached /\ outcome = "ok" IN
     /\ outcome = "ok" => mq.channel \in mq.channels \/ ~reached
     /\ req' = [req EXCEPT ![p] = Done([req[p] EXCEPT !.publish = IF done THEN "true" ELSE "false",
                                                     !.sent = done],
                                       Success(0))]
  /\ UNCHANGED <<reviews, nextId, env, trail, mq>>

\* close up to its first await: channel.close() if there is a channel,
\* else connection.close() if there is a connection, else only the promise
\* is dropped
RabbitClose(p) ==
  /\ Free(p)
  /\ mq.family = "rabbitmq"
  /\ LET base == [IdleReq EXCEPT !.op = "close"] IN
     IF mq.channel # 0
       THEN /\ req' = Admit(p, [base EXCEPT !.pc = "closeChannel", !.returned = mq.channel])
            /\ UNCHANGED mq
     ELSE IF mq.connection # 0
       THEN /\ req' = Admit(p, [base EXCEPT !.pc = "closeConnection", !.returned = mq.connection])
            /\ UNCHANGED mq
     ELSE /\ req' = Admit(p, Done(base, Success(0)))
          /\ mq' = [mq EXCEPT !.promise = 0]
  /\ UNCHANGED <<reviews, nextId, env, trail>>

\* channel.close() has ended: this.channel = null, then the connection as
\* it is now; an error ends close in its catch
RabbitChannelClosed(p, ok) ==
  /\ req[p].pc = "closeChannel"
  /\ IF ~ok
       THEN /\ req' = [req EXCEPT ![p] = Done(req[p], Success(0))]
            /\ UNCHANGED mq
     ELSE IF mq.connection # 0
       THEN /\ req' = [req EXCEPT ![p] = [req[p] EXCEPT !.pc = "closeConnection",
                                                        !.returned = mq.connection]]
            /\ mq' = [mq EXCEPT !.channel = 0, !.channels = @ \ {req[p].returned}]
     ELSE /\ req' = [req EXCEPT ![p] = Done(req[p], Success(0))]
          /\ mq' = [mq EXCEPT !.channel = 0, !.promise = 0, !.channels = @ \ {req[p].returned}]
  /\ UNCHANGED <<reviews, nextId, env, trail>>

\* connection.close() has ended, and with the connection its channels:
\* this.connection = null, this._connectionPromise = null
RabbitConnectionClosed(p, ok) ==
  /\ req[p].pc = "closeConnection"
  /\ req' = [req EXCEPT ![p] = Done(req[p], Success(0))]
  /\ mq' = IF ok THEN [mq EXCEPT !.connection = 0, !.promise = 0,
                                 !.open = @ \ {req[p].returned},
                                 !.channels = @ \ {req[p].returned}]
            ELSE mq
  /\ UNCHANGED <<reviews, nextId, env, trail>>

\* publishEvent up to the first await of _initializeClient: nothing to do
\* with a sender, else the import, whoever else is importing
SbPublishEvent(p) ==
  /\ Free(p)
  /\ mq.family = "servicebus"
  /\ LET base == [IdleReq EXCEPT !.pc = "wait", !.op = "publishEvent"] IN
     IF mq.sender # 0
       THEN /\ req' = Admit(p, base)
            /\ UNCHANGED mq
     ELSE /\ Len(mq.stage) < MaxAttempts
          /\ mq' = [mq EXCEPT !.stage = Append(@, "import")]
          /\ req' = Admit(p, [base EXCEPT !.returned = Len(mq.stage) + 1])
  /\ UNCHANGED <<reviews, nextId, env, trail>>

\* after the import: this.client = new ServiceBusClient(...), this.sender =
\* this.client.createSender(...); an error is rethrown
SbInitializeClient(a, ok) ==
  /\ a \in DOMAIN mq.stage /\ mq.stage[a] = "import"
  /\ mq' = IF ok THEN [mq EXCEPT !.stage[a] = "ok", !.open = @ \cup {a}, !.client = a, !.sender = a]
            ELSE [mq EXCEPT !.stage[a] = "failed"]
  /\ UNCHANGED <<reviews, nextId, req, env, trail>>

\* publishEvent after the await: false when its initialisation failed or
\* there is no sender, else this.sender.sendMessages
SbPublish(p, outcome) ==
  /\ req[p].pc = "wait" /\ req[p].op = "publishEvent"
  /\ mq.family = "servicebus"
  /\ req[p].returned # 0 => Settled(req[p].returned)
  /\ LET reached == (req[p].returned # 0 => mq.stage[req[p].returned] = "ok") /\ mq.sender # 0
         done == reached /\ outcome = "ok" IN
     req' = [req EXCEPT ![p] = Done([req[p] EXCEPT !.publish = IF done THEN "true" ELSE "false",
                                                  !.sent = done],
                                    Success(0))]
  /\ UNCHANGED <<reviews, nextId, env, trail, mq>>

\* a provider of a family that holds a connection, made and not yet used
InitConnect ==
  /\ reviews = << >>
  /\ nextId = 1
  /\ req = [p \in Procs |-> IdleReq]
  /\ env = DefaultEnv
  /\ trail = NoTrail
  /\ \E f \in {"rabbitmq", "servicebus"} :
       mq = [NoMq EXCEPT !.family = f, !.singleton = 1, !.created = 1, !.made = 1]

\* publishes from every slot, no close
NextConnect ==
  \/ \E p \in Procs : RabbitPublishEvent(p)
  \/ \E a \in 1..MaxAttempts, ok \in BOOLEAN : RabbitConnect(a, ok)
  \/ \E a \in 1..MaxAttempts, ok \in BOOLEAN : RabbitCreateChannel(a, ok)
  \/ \E a \in 1..MaxAttempts, ok \in BOOLEAN : RabbitAssertExchange(a, ok)
  \/ \E p \in Procs, outcome \in {"ok", "threw"} : RabbitPublish(p, outcome)
  \/ \E p \in Procs : SbPublishEvent(p)
  \/ \E a \in 1..MaxAttempts, ok \in BOOLEAN : SbInitializeClient(a, ok)
  \/ \E p \in Procs, outcome \in {"ok", "threw"} : SbPublish(p, outcome)

SpecConnect == InitConnect /\ [][NextConnect]_vars

\* a RabbitMQProvider, made and not yet used
InitRabbit ==
  /\ reviews = << >>
  /\ nextId = 1
  /\ req = [p \in Procs |-> IdleReq]
  /\ env = DefaultEnv
  /\ trail = NoTrail
  /\ mq = [NoMq EXCEPT !.family = "rabbitmq", !.singleton = 1, !.created = 1, !.made = 1]

\* publishes from every slot, closes from the first
NextRabbit ==
  \/ \E p \in Procs : RabbitPublishEvent(p)
  \/ \E a \in 1..MaxAttempts, ok \in BOOLEAN : RabbitConnect(a, ok)
  \/ \E a \in 1..MaxAttempts, ok \in BOOLEAN : RabbitCreateChannel(a, ok)
  \/ \E a \in 1..MaxAttempts, ok \in BOOLEAN : RabbitAssertExchange(a, ok)
  \/ \E p \in Procs, outcome \in {"ok", "threw"} : RabbitPublish(p, outcome)
  \/ \E p \in SeqProcs : RabbitClose(p)
  \/ \E p \in SeqProcs, ok \in BOOLEAN : RabbitChannelClosed(p, ok)
  \/ \E p \in SeqProcs, ok \in BOOLEAN : RabbitConnectionClosed(p, ok)

SpecRabbit == InitRabbit /\ [][NextRabbit]_vars

----------------------------------------------------------------------------
(* getProductReviews: one page of a product's reviews and its rating details *)

RECURSIVE SumRatings(_)
\* $sum of '$rating' over the matched documents
SumRatings(S) ==
  IF S = {} THEN 0
  ELSE LET r == CHOOSE x \in S : TRUE IN reviews[r].rating + SumRatings(S \ {r})

\* Math.round(avg * 10) / 10 of avg = sum / n, in tenths: Math.round takes
\* the nearest integer and a half upwards
RoundTenths(sum, n) == (20 * sum + n) \div (2 * n)

\* filter: the product, the status asked for (approved by default), the
\* rating when the options name one (`if (rating)`: not 0, which stands for
\* null here too) and the verified flag when they ask for it
Filter(productId, options) ==
  {r \in DOMAIN reviews :
     /\ reviews[r].productId = productId
     /\ reviews[r].status = options.status
     /\ options.rating # 0 => reviews[r].rating = options.rating
     /\ options.verifiedOnly => reviews[r].isVerifiedPurchase}

\* the aggregate matched with the filter of the page
AggregateFilterOfPage(productId, options) == Filter(productId, options)

\* aggregateFilter: { productId, status: 'approved' }, whatever the options
AggregateFilter(productId, options) ==
  {r \in DOMAIN reviews : reviews[r].productId = productId /\ reviews[r].status = "approved"}

\* the $group stage over the matched documents and its formatting; no
\* group at all when nothing matched
RatingDetails(S) ==
  IF S = {} THEN NoRatingDetails
  ELSE [averageRating |-> RoundTenths(SumRatings(S), Cardinality(S)),
        totalReviews |-> Cardinality(S),
        verifiedReviewCount |-> Cardinality({r \in S : reviews[r].isVerifiedPurchase}),
        ratingDistribution |-> [k \in Stars |-> Cardinality({r \in S : reviews[r].rating = k})]]

\* getProductReviews: find, countDocuments and aggregate in one Promise.all;
\* `returned` is pagination.total
GetProductReviews(p, productId, options) ==
  /\ Free(p)
  /\ LET base == [IdleReq EXCEPT !.op = "getProductReviews",
                                 !.data = [productId |-> productId, options |-> options]] IN
     req' = Admit(p, Done([base EXCEPT
                             !.returned = Cardinality(Filter(productId, options)),
                             !.ratingDetails = RatingDetails(AggregateFilter(productId, options))],
                          Success(200)))
  /\ UNCHANGED <<reviews, nextId, env, trail, mq>>

----------------------------------------------------------------------------
(* Moderation: approveReview, rejectReview, hideReview *)

\* ModerateLoad without the same-status check
ModerateLoadAnyStatus(base, r, target) ==
  IF r \notin DOMAIN reviews THEN Done(base, ErrorResponse(404, NoCode))
  ELSE [base EXCEPT !.pc = "save", !.loaded = reviews[r],
                    !.doc = PreSaveStamp([reviews[r] EXCEPT !.status = target,
                                                            !.updatedBy = base.user.userId])]

\* the service part shared by the three: findById, the same-status check and
\* the in-memory change (review.metadata is no schema path and is not saved;
\* pre('save') overwrites updatedBy with the author)
ModerateLoad(base, r, target) ==
  IF r \notin DOMAIN reviews THEN Done(base, ErrorResponse(404, NoCode))
  ELSE IF reviews[r].status = target THEN Done(base, ErrorResponse(400, NoCode))
  ELSE [base EXCEPT !.pc = "save", !.loaded = reviews[r],
                    !.doc = PreSaveStamp([reviews[r] EXCEPT !.status = target,
                                                            !.updatedBy = base.user.userId])]

ApproveReview(p, r, admin) ==
  /\ Free(p)
  /\ LET base == [IdleReq EXCEPT !.op = "approve", !.rid = r,
                                 !.user = [userId |-> Str(admin)]] IN
     req' = Admit(p, ModerateLoad(base, r, "approved"))
  /\ UNCHANGED <<reviews, nextId, env, trail, mq>>

\* the controller refuses a missing reason before it calls the service
ModerateWithReason(p, op, target, r, admin, reason) ==
  /\ Free(p)
  /\ LET base == [IdleReq EXCEPT !.op = op, !.rid = r, !.user = [userId |-> Str(admin)],
                                 !.data = [reason |-> reason]] IN
     req' = Admit(p,
       IF ~Truthy(reason) THEN Done(base, HttpFailure(400))
       ELSE ModerateLoad(base, r, target))
  /\ UNCHANGED <<reviews, nextId, env, trail, mq>>

RejectReview(p, r, admin, reason) == ModerateWithReason(p, "reject", "rejected", r, admin, reason)

HideReview(p, r, admin, reason) == ModerateWithReason(p, "hide", "hidden", r, admin, reason)

\* const updatedReview = await review.save()
ModerationSave(p) ==
  /\ req[p].pc = "save"
  /\ req[p].op \in {"approve", "reject", "hide"}
  /\ LET r == req[p]
         out == SaveOutcome(r.rid, r.loaded, r.doc, r.aop) IN
     IF out = "ok"
       THEN /\ reviews' = SaveWrite(r.rid, r.loaded, r.doc, r.aop)
            /\ req' = [req EXCEPT ![p] =
                 IF r.op = "approve"
                   THEN [r EXCEPT !.pc = "publish", !.persisted = TRUE]
                   ELSE Done([r EXCEPT !.persisted = TRUE], Success(200))]
       ELSE /\ req' = [req EXCEPT ![p] = Done(r, RawError(out))]
            /\ UNCHANGED reviews
  /\ UNCHANGED <<nextId, env, trail, mq>>

----------------------------------------------------------------------------
(* Operations on many reviews: bulkModerateReviews, handleProductDeletion *)

\* statusMap
StatusMap(action) ==
  CASE action = "approve" -> "approved"
    [] action = "reject" -> "rejected"
    [] action = "hide" -> "hidden"

\* $set: { status, updatedBy } on one document
BulkSet(doc, action, admin) ==
  [doc EXCEPT !.status = StatusMap(action), !.updatedBy = Str(admin)]

\* a count of the ids in the request
ListedCount(reviewIds, action, admin) == Cardinality(reviewIds)

\* result.modifiedCount: the stored documents the update changed
ModifiedCount(reviewIds, action, admin) ==
  Cardinality({r \in DOMAIN reviews \cap reviewIds : BulkSet(reviews[r], action, admin) # reviews[r]})

\* the controller refuses an empty id list and an unknown action, the service
\* a reject or hide without a reason; Review.updateMany then sets status and
\* updatedBy of the listed reviews in one write, without loading them (the
\* metadata.* keys are no schema paths and are not written)
BulkModerateReviews(p, reviewIds, action, admin, reason) ==
  /\ Free(p)
  /\ LET base == [IdleReq EXCEPT !.op = "bulkModerate", !.user = [userId |-> Str(admin)],
                                 !.data = [reason |-> reason, action |-> action,
                                           reviewIds |-> reviewIds]] IN
     IF reviewIds = {} \/ action \notin {"approve", "reject", "hide"}
       THEN /\ req' = Admit(p, Done(base, HttpFailure(400)))
            /\ UNCHANGED reviews
     ELSE IF action \in {"reject", "hide"} /\ ~Truthy(reason)
       THEN /\ req' = Admit(p, Done(base, ErrorResponse(400, NoCode)))
            /\ UNCHANGED reviews
     ELSE /\ reviews' = [r \in DOMAIN reviews |->
                           IF r \in reviewIds THEN BulkSet(reviews[r], action, admin)
                                             ELSE reviews[r]]
          /\ req' = Admit(p, Done([base EXCEPT !.persisted = TRUE,
                                               !.returned = ModifiedCount(reviewIds, action, admin)],
                                  Success(200)))
  /\ UNCHANGED <<nextId, env, trail, mq>>

\* handleProductDeletion whose soft deletion also clears the purchase flag
HandleProductDeletionClearsVerified(p, productId, deleteReviews) ==
  /\ Free(p)
  /\ LET base == [IdleReq EXCEPT !.op = "productDeletion",
                                 !.data = [productId |-> productId,
                                           deleteReviews |-> deleteReviews]] IN
     req' = Admit(p, Done([base EXCEPT !.persisted = TRUE], Success(0)))
  /\ reviews' =
       IF deleteReviews
         THEN [r \in {x \in DOMAIN reviews : reviews[x].productId # productId} |-> reviews[r]]
         ELSE [r \in DOMAIN reviews |->
                 IF reviews[r].productId = productId
                   THEN [reviews[r] EXCEPT !.isVerifiedPurchase = FALSE, !.status = "hidden"]
                   ELSE reviews[r]]
  /\ UNCHANGED <<nextId, env, trail, mq>>

\* handleProductDeletion: Review.deleteMany({productId}), or with
\* deleteReviews false Review.updateMany setting status hidden; it returns a
\* count and answers no HTTP request
HandleProductDeletion(p, productId, deleteReviews) ==
  /\ Free(p)
  /\ LET base == [IdleReq EXCEPT !.op = "productDeletion",
                                 !.data = [productId |-> productId,
                                           deleteReviews |-> deleteReviews]] IN
     req' = Admit(p, Done([base EXCEPT !.persisted = TRUE], Success(0)))
  /\ reviews' =
       IF deleteReviews
         THEN [r \in {x \in DOMAIN reviews : reviews[x].productId # productId} |-> reviews[r]]
         ELSE [r \in DOMAIN reviews |->
                 IF reviews[r].productId = productId
                   THEN [reviews[r] EXCEPT !.status = "hidden"]
                   ELSE reviews[r]]
  /\ UNCHANGED <<nextId, env, trail, mq>>

----------------------------------------------------------------------------
(* The transport providers: DaprProvider, RabbitMQProvider, ServiceBusProvider *)

\* how the client library's send can end: the message is handed over, the
\* call throws, or the call returns normally although nothing was sent.  The
\* Dapr client's pubsub.publish reports a failed publish in the value it
\* resolves with; channel.publish and sender.sendMessages throw
SendOutcomes(family) ==
  IF family = "dapr" THEN {"ok", "threw", "reported"} ELSE {"ok", "threw"}

\* what one publishEvent meets: the lazy connection setup (not made again
\* once the client, channel or sender exists), the serialization of the
\* event, the send; a step after a failed one is not reached
Attempts(family, connected) ==
  LET setups == IF connected THEN {"none"} ELSE {"ok", "fail"} IN
  { a \in [setup : setups, serial : {"ok", "fail", "none"},
           send : SendOutcomes(family) \cup {"none"}] :
      /\ (a.serial = "none") = (a.setup = "fail")
      /\ (a.send = "none") = (a.serial # "ok") }

\* publishEvent: everything inside try { ... } catch { return false }, and
\* `return true` after the send returned
ProviderPublishEvent(p, a) ==
  /\ Free(p)
  /\ mq.singleton # 0
  /\ a \in Attempts(ProviderType(mq.family), mq.connected)
  /\ LET base == [IdleReq EXCEPT !.op = "publishEvent", !.data = a,
                                 !.publish = IF a.send \in {"ok", "reported"} THEN "true"
                                             ELSE "false",
                                 !.sent = (a.send = "ok")] IN
     req' = Admit(p, Done(base, Success(0)))
  /\ mq' = [mq EXCEPT !.connected = @ \/ a.setup = "ok"]
  /\ UNCHANGED <<reviews, nextId, env, trail>>

\* provider.close(): the client, channel or sender is dropped
ProviderClose ==
  /\ mq.singleton # 0
  /\ mq.connected
  /\ mq' = [mq EXCEPT !.connected = FALSE]
  /\ UNCHANGED <<reviews, nextId, req, env, trail>>

----------------------------------------------------------------------------
(* The provider factory: getMessagingProvider, closeMessagingProvider *)

\* createMessagingProvider and the assignment to the singleton: a new
\* instance, not yet connected and never closed
Made(m) ==
  [m EXCEPT !.singleton = m.created + 1, !.created = m.created + 1,
            !.closes = Append(m.closes, 0), !.handed = @ \cup {m.created + 1},
            !.made = @ + 1, !.connected = FALSE]

\* the switch of createMessagingProvider: a provider of the family, or
\* `throw new Error('Invalid MESSAGING_PROVIDER ...')`, which leaves the
\* singleton as it was
CreateInto(p, base) ==
  IF ProviderType(mq.family) \in Families
    THEN /\ mq.created < MaxInstances
         /\ mq' = Made(mq)
         /\ req' = Admit(p, Done([base EXCEPT !.returned = mq.created + 1], Success(0)))
    ELSE /\ mq' = mq
         /\ req' = Admit(p, Done(base, RawError("Error")))

\* getMessagingProvider: the singleton when there is one; otherwise the
\* synchronous factory makes one in the same step and the asynchronous one
\* awaits createMessagingProvider() first
GetMessagingProvider(p) ==
  /\ Free(p)
  /\ LET base == [IdleReq EXCEPT !.op = "getMessagingProvider"] IN
     IF mq.singleton # 0
       THEN /\ mq' = [mq EXCEPT !.handed = @ \cup {mq.singleton}]
            /\ req' = Admit(p, Done([base EXCEPT !.returned = mq.singleton], Success(0)))
     ELSE IF mq.factory = "sync" THEN CreateInto(p, base)
     ELSE /\ mq' = mq
          /\ req' = Admit(p, [base EXCEPT !.pc = "creating"])
  /\ UNCHANGED <<reviews, nextId, env, trail>>

\* messagingProvider = await createMessagingProvider(); return messagingProvider
GetCreated(p) ==
  /\ req[p].pc = "creating"
  /\ CreateInto(p, req[p])
  /\ UNCHANGED <<reviews, nextId, env, trail>>

\* closeMessagingProvider that leaves the singleton set
AfterCloseKeepsSingleton(m) == [m EXCEPT !.handed = {}, !.made = 0]

\* messagingProvider = null
AfterClose(m) == [m EXCEPT !.singleton = 0, !.handed = {}, !.made = 0]

\* closeMessagingProvider: nothing without a singleton; with one,
\* messagingProvider.close() is called and awaited
CloseMessagingProvider(p) ==
  /\ Free(p)
  /\ LET base == [IdleReq EXCEPT !.op = "closeMessagingProvider"] IN
     IF mq.singleton = 0
       THEN /\ mq' = mq
            /\ req' = Admit(p, Done(base, Success(0)))
       ELSE /\ mq' = [mq EXCEPT !.closes[mq.singleton] = @ + 1, !.connected = FALSE]
            /\ req' = Admit(p, [base EXCEPT !.pc = "closing", !.returned = mq.singleton])
  /\ UNCHANGED <<reviews, nextId, env, trail>>

\* after the await: the singleton is cleared
CloseCleared(p) ==
  /\ req[p].pc = "closing"
  /\ mq' = AfterClose(mq)
  /\ req' = [req EXCEPT ![p] = Done(req[p], Success(0))]
  /\ UNCHANGED <<reviews, nextId, env, trail>>

\* the values MESSAGING_PROVIDER is given: unset, a family in either case,
\* something else
FamilyInputs == {Absent, "dapr", "DAPR", "RabbitMQ", "servicebus", "kafka"}

\* the module as loaded, in either build of the factory
InitFactory ==
  /\ reviews = << >>
  /\ nextId = 1
  /\ req = [p \in Procs |-> IdleReq]
  /\ env = DefaultEnv
  /\ trail = NoTrail
  /\ \E b \in {"sync", "async"}, f \in FamilyInputs :
       mq = [NoMq EXCEPT !.factory = b, !.family = f]

\* factory calls one after another
NextFactorySeq ==
  \/ \E p \in SeqProcs : GetMessagingProvider(p)
  \/ \E p \in SeqProcs : GetCreated(p)
  \/ \E p \in SeqProcs : CloseMessagingProvider(p)
  \/ \E p \in SeqProcs : CloseCleared(p)
  \/ \E p \in Procs \ SeqProcs,
          a \in [setup : {"ok", "none"}, serial : {"ok"}, send : {"ok", "threw"}] :
       ProviderPublishEvent(p, a)

SpecFactorySeq == InitFactory /\ [][NextFactorySeq]_vars

\* factory calls that overlap
NextFactory ==
  \/ \E p \in Procs : GetMessagingProvider(p)
  \/ \E p \in Procs : GetCreated(p)
  \/ \E p \in SeqProcs : CloseMessagingProvider(p)
  \/ \E p \in SeqProcs : CloseCleared(p)

SpecFactory == InitFactory /\ [][NextFactory]_vars

----------------------------------------------------------------------------
(* The providers by themselves *)

\* a provider of each family, made and not yet connected
InitProvider ==
  /\ reviews = << >>
  /\ nextId = 1
  /\ req = [p \in Procs |-> IdleReq]
  /\ env = DefaultEnv
  /\ trail = NoTrail
  /\ \E f \in Families :
       mq = [NoMq EXCEPT !.family = f, !.singleton = 1, !.created = 1,
                         !.closes = <<0>>, !.made = 1]

NextProvider ==
  \/ \E p \in Procs, a \in [setup : {"ok", "fail", "none"}, serial : {"ok", "fail", "none"},
                             send : {"ok", "threw", "reported", "none"}] :
       ProviderPublishEvent(p, a)
  \/ ProviderClose

SpecProvider == InitProvider /\ [][NextProvider]_vars

----------------------------------------------------------------------------
(* Specifications of voting *)

\* one approved review by u1 is in the collection, no request in flight
InitVote ==
  /\ reviews = (1 :> NewReview("p1", Str("u1"), 5, "t", "c", FALSE, "approved"))
  /\ nextId = 2
  /\ req = [p \in Procs |-> IdleReq]
  /\ env = DefaultEnv
  /\ trail = NoTrail
  /\ mq = NoMq

VoteInputs == VoteTypes \cup {"funny"}

NextVoteSeq ==
  \/ \E p \in SeqProcs, r \in {0, 1}, u \in Users, t \in VoteInputs : VoteLoad(p, r, u, t)
  \/ \E p \in SeqProcs : VoteSave(p)

SpecVoteSeq == InitVote /\ [][NextVoteSeq]_vars

\* the same calls with the history of persisted votes recorded
InitVoteTrail ==
  /\ reviews = (1 :> NewReview("p1", Str("u1"), 5, "t", "c", FALSE, "approved"))
  /\ nextId = 2
  /\ req = [p \in Procs |-> IdleReq]
  /\ env = DefaultEnv
  /\ trail = [NoTrail EXCEPT !.on = TRUE]
  /\ mq = NoMq

SpecVoteTrail == InitVoteTrail /\ [][NextVoteSeq]_vars

RaceVoters == {"u2", "u3"}

NextVote ==
  \/ \E p \in Procs, u \in RaceVoters, t \in VoteTypes : VoteLoad(p, 1, u, t)
  \/ \E p \in Procs : VoteSave(p)

SpecVote == InitVote /\ [][NextVote]_vars

----------------------------------------------------------------------------
(* Deletion racing with the other operations on the same review *)

\* review 1 by u1 and review 2 by u2, which u3 has voted helpful
InitDelete ==
  /\ reviews = (1 :> NewReview("p1", Str("u1"), 5, "t", "c", FALSE, "approved"))
             @@ (2 :> [NewReview("p1", Str("u2"), 4, "t", "c", FALSE, "approved")
                         EXCEPT !.helpful = 1,
                                !.userVotes = <<[userId |-> Str("u3"), vote |-> "helpful"]>>,
                                !.v = 1])
  /\ nextId = 3
  /\ req = [p \in Procs |-> IdleReq]
  /\ env = DefaultEnv
  /\ trail = NoTrail
  /\ mq = NoMq

\* the slots whose votes and moderation race with the deleting client
Racers == Procs \ SeqProcs

\* the racing requests come over one slot: the other racing slots are unused
OnlyRacer(p) == \A q \in Racers \ {p} : req[q].pc = "idle"

\* one client deletes and looks the reviews up; votes and moderation race with it
NextDelete ==
  \/ \E p \in SeqProcs, r \in {1, 2}, u \in {"u1", "u2"} : DeleteLoad(p, r, u)
  \/ \E p \in SeqProcs : DeleteRemove(p)
  \/ \E p \in SeqProcs : Publish(p, "true")
  \/ \E p \in SeqProcs, r \in {1, 2} : GetReviewById(p, r, "u3")
  \/ \E p \in SeqProcs :
       UpdateReview(p, 1, "u1", [rating |-> 4, comment |-> Absent, supplied |-> {"rating"}])
  \/ \E p \in Racers, r \in {1, 2} : VoteLoad(p, r, "u3", "helpful")
  \/ \E p \in Racers : VoteSave(p)
  \/ \E p \in Racers : RejectReview(p, 1, "u3", "spam")
  \/ \E p \in Racers : ModerationSave(p)

SpecDelete == InitDelete /\ [][NextDelete]_vars

----------------------------------------------------------------------------
(* Specifications of creation *)

PolicyEnvs ==
  [requirePurchase : BOOLEAN, autoApproveVerified : BOOLEAN, moderationRequired : BOOLEAN,
   invoker : BOOLEAN, provider : BOOLEAN]

Customer(u) == [userId |-> Str(u), roles |-> {"customer"}, isAdmin |-> FALSE, isActive |-> Absent]

\* the user objects a request may carry
UserInputs ==
  [userId : {Str("u1")}, roles : {{"customer"}, {"customer", "admin"}},
   isAdmin : BOOLEAN, isActive : {"true", "false", Absent}]

\* the request bodies of createReview: valid ones, and ones save() refuses
CreateInputs ==
  [productId : Products, rating : {5}, title : {"t"}, comment : {Absent},
   orderReference : {Absent, "ord"}]
  \cup
  [productId : Products, rating : {6}, title : {""}, comment : {Absent},
   orderReference : {Absent, "ord"}]

ProductAnswers == {"exists", "missing", "error404", "error"}
PurchaseAnswers == {"valid", "invalid", "error"}

InitEmpty ==
  /\ reviews = << >>
  /\ nextId = 1
  /\ req = [p \in Procs |-> IdleReq]
  /\ trail = NoTrail
  /\ mq = NoMq

\* creations one at a time, under every configuration
InitCreateSeq == InitEmpty /\ env \in {e \in PolicyEnvs : e.provider}

NextCreateSeq ==
  \/ \E p \in SeqProcs, user \in UserInputs, data \in CreateInputs : CreateBegin(p, user, data)
  \/ \E p \in SeqProcs, a \in ProductAnswers, b \in PurchaseAnswers : CreateExternal(p, a, b)
  \/ \E p \in SeqProcs : CreateSave(p)
  \/ \E p \in SeqProcs, o \in {"true", "false", "threw"} : Publish(p, o)

SpecCreateSeq == InitCreateSeq /\ [][NextCreateSeq]_vars

\* the outcomes of the product check: the answers of the product service
\* and, with "unreachable404", a call that never reached it and failed
\* with a message such as `connect ECONNREFUSED 10.0.0.7:34040`
ProductChecks == ProductAnswers \cup {"unreachable404"}

\* creations whose external checks end in every way, with and without the
\* sidecar client
InitExternal ==
  /\ InitEmpty
  /\ env \in {e \in PolicyEnvs : e.provider /\ ~e.autoApproveVerified /\ ~e.moderationRequired}

NextExternal ==
  \/ \E p \in SeqProcs, u \in {"u1", "u2"}, data \in CreateInputs :
       CreateBegin(p, Customer(u), data)
  \/ \E p \in SeqProcs, a \in ProductChecks, b \in PurchaseAnswers : CreateExternal(p, a, b)
  \/ \E p \in SeqProcs : CreateSave(p)
  \/ \E p \in SeqProcs, o \in {"true", "threw"} : Publish(p, o)

\* the store and the publisher answer in the end, and without the sidecar
\* client both checks return at once; with it, the answer of the product
\* and order services is awaited with no timer beside it
SpecExternal ==
  /\ InitExternal /\ [][NextExternal]_vars
  /\ WF_vars(~env.invoker /\ \E p \in SeqProcs, a \in ProductChecks, b \in PurchaseAnswers :
                                CreateExternal(p, a, b))
  /\ WF_vars(\E p \in SeqProcs : CreateSave(p))
  /\ WF_vars(\E p \in SeqProcs, o \in {"true", "threw"} : Publish(p, o))

\* what a body claims for the fields of the service: another author, a
\* verified purchase, the status approved
Forged ==
  [isVerifiedPurchase |-> TRUE, status |-> "approved", userId |-> Str("u3"),
   createdBy |-> Str("u3"), updatedBy |-> Str("u3")]

\* the request bodies of createReview, plain and with forged fields
ForgedInputs ==
  [productId : Products, rating : {5}, title : {"t"}, comment : {Absent},
   orderReference : {Absent, "ord"}]
  \cup
  [productId : Products, rating : {5}, title : {"t"}, comment : {Absent},
   forged : {Forged}, orderReference : {Absent, "ord"}]

\* creations one at a time under every policy, with the sidecar client
InitForged == InitEmpty /\ env \in {e \in PolicyEnvs : e.invoker /\ e.provider}

NextForged ==
  \/ \E p \in SeqProcs, u \in {"u1", "u2"}, data \in ForgedInputs :
       CreateBegin(p, Customer(u), data)
  \/ \E p \in SeqProcs, b \in PurchaseAnswers : CreateExternal(p, "exists", b)
  \/ \E p \in SeqProcs : CreateSave(p)
  \/ \E p \in SeqProcs : Publish(p, "true")

SpecForged == InitForged /\ [][NextForged]_vars

\* creations, valid and not, racing with each other and with the updates
\* and deletions of one client
InitOrder == InitEmpty /\ env = DefaultEnv

NextOrder ==
  \/ \E p \in Procs, u \in {"u1", "u2"}, data \in CreateInputs :
       data.productId = "p1" /\ data.orderReference = Absent /\ CreateBegin(p, Customer(u), data)
  \/ \E p \in Procs, a \in {"exists", "missing"} : CreateExternal(p, a, "valid")
  \/ \E p \in Procs : CreateSave(p)
  \/ \E p \in Procs, o \in {"true", "threw"} : Publish(p, o)
  \/ \E p \in SeqProcs :
       UpdateReview(p, 1, "u1", [rating |-> 4, comment |-> Absent, supplied |-> {"rating"}])
  \/ \E p \in SeqProcs, u \in {"u1", "u2"} : DeleteLoad(p, 1, u)
  \/ \E p \in SeqProcs : DeleteRemove(p)

SpecOrder == InitOrder /\ [][NextOrder]_vars

\* creations racing with each other and with the deletions of one client
RaceUsers == {Customer("u1"), Customer("u2")}
RaceCreates ==
  [productId : Products, rating : {5}, title : {"t"}, comment : {Absent},
   orderReference : {Absent}]

InitCreate == InitEmpty /\ env = DefaultEnv

NextCreate ==
  \/ \E p \in Procs, user \in RaceUsers, data \in RaceCreates : CreateBegin(p, user, data)
  \/ \E p \in Procs : CreateExternal(p, "exists", "valid")
  \/ \E p \in Procs : CreateSave(p)
  \/ \E p \in Procs, o \in {"true", "false", "threw"} : Publish(p, o)
  \/ \E p \in SeqProcs, r \in ReviewIds, u \in {"u1", "u2"} : DeleteLoad(p, r, u)
  \/ \E p \in SeqProcs : DeleteRemove(p)

SpecCreate == InitCreate /\ [][NextCreate]_vars

----------------------------------------------------------------------------
(* The lifecycle of a review, handlers executed one at a time *)

LifecycleCreates ==
  [productId : {"p1"}, rating : {5}, title : {"t"}, comment : {Absent},
   orderReference : {Absent, "ord"}]

\* the request bodies of updateReview: the fields supplied and their values
UpdateInputs ==
  { [rating |-> 4, comment |-> Absent, supplied |-> {"rating"}],
    [rating |-> 0, comment |-> "c2", supplied |-> {"comment"}],
    [rating |-> 0, comment |-> Absent, supplied |-> {"title"}],
    [rating |-> 0, comment |-> Absent, supplied |-> {"images"}],
    [rating |-> 0, comment |-> Absent, supplied |-> {"images", "videos"}] }

Reasons == {Absent, "", "spam"}

Init ==
  /\ InitEmpty
  /\ env \in {e \in PolicyEnvs : e.invoker /\ ~e.requirePurchase /\ ~e.autoApproveVerified}

Next ==
  \/ \E p \in SeqProcs, u \in {"u1", "u2"}, data \in LifecycleCreates :
       CreateBegin(p, Customer(u), data)
  \/ \E p \in SeqProcs, b \in {"valid", "invalid"} : CreateExternal(p, "exists", b)
  \/ \E p \in SeqProcs : CreateSave(p)
  \/ \E p \in SeqProcs, o \in {"true", "false", "threw"} : Publish(p, o)
  \/ \E p \in SeqProcs, r \in AnyReviewId, u \in {"u1", "u2"}, d \in UpdateInputs :
       UpdateReview(p, r, u, d)
  \/ \E p \in SeqProcs, r \in AnyReviewId, u \in {"u1", "u2"} : DeleteLoad(p, r, u)
  \/ \E p \in SeqProcs : DeleteRemove(p)
  \/ \E p \in SeqProcs, r \in AnyReviewId : ApproveReview(p, r, "u3")
  \/ \E p \in SeqProcs, r \in AnyReviewId, reason \in Reasons : RejectReview(p, r, "u3", reason)
  \/ \E p \in SeqProcs, r \in AnyReviewId, reason \in Reasons : HideReview(p, r, "u3", reason)
  \/ \E p \in SeqProcs : ModerationSave(p)

Spec == Init /\ [][Next]_vars

----------------------------------------------------------------------------
(* Status and purchase flag under every operation on a stored review *)

\* review 1 by u1 on p1, approved before, its purchase not verified; review 2
\* by u2 on p2, still pending, its purchase verified
InitStatus ==
  /\ reviews = (1 :> NewReview("p1", Str("u1"), 5, "t", "c", FALSE, "approved"))
             @@ (2 :> NewReview("p2", Str("u2"), 4, "t", "c", TRUE, "pending"))
  /\ nextId = 3
  /\ req = [p \in Procs |-> IdleReq]
  /\ env = DefaultEnv
  /\ trail = NoTrail
  /\ mq = NoMq

\* the bodies of bulk moderation: action and reason, one action unknown
BulkInputs ==
  { <<"approve", Absent>>, <<"hide", "spam">>, <<"hide", Absent>>, <<"pend", Absent>> }

\* one administrator and the author on the first slot; the votes of one
\* client race with them
NextStatus ==
  \/ \E p \in SeqProcs, ids \in {{}, ReviewIds}, b \in BulkInputs :
       BulkModerateReviews(p, ids, b[1], "u3", b[2])
  \/ \E p \in SeqProcs, prod \in Products, del \in BOOLEAN : HandleProductDeletion(p, prod, del)
  \/ \E p \in SeqProcs :
       UpdateReview(p, 1, "u1", [rating |-> 4, comment |-> Absent, supplied |-> {"rating"}])
  \/ \E p \in SeqProcs : ApproveReview(p, 1, "u3")
  \/ \E p \in SeqProcs : Publish(p, "threw")
  \/ \E p \in Racers : OnlyRacer(p) /\ VoteLoad(p, 2, "u3", "helpful")
  \/ \E p \in Racers : VoteSave(p)
  \/ \E p \in SeqProcs : RejectReview(p, 2, "u3", "spam")
  \/ \E p \in SeqProcs : ModerationSave(p)

SpecStatus == InitStatus /\ [][NextStatus]_vars

----------------------------------------------------------------------------
(* Bulk moderation over lists that name reviews that are gone *)

\* bulk moderations by two administrators, one after another, between
\* product deletions that remove reviews
NextBulk ==
  \/ \E p \in SeqProcs, ids \in SUBSET ReviewIds, b \in BulkInputs, admin \in {"u3", "u2"} :
       BulkModerateReviews(p, ids, b[1], admin, b[2])
  \/ \E p \in SeqProcs, prod \in Products : HandleProductDeletion(p, prod, TRUE)
  \/ \E p \in SeqProcs, r \in ReviewIds : ApproveReview(p, r, "u3")
  \/ \E p \in SeqProcs : ModerationSave(p)
  \/ \E p \in SeqProcs : Publish(p, "threw")

SpecBulk == InitStatus /\ [][NextBulk]_vars

----------------------------------------------------------------------------
(* The publisher from construction on: initialize, publish, close *)

\* constructor: this.provider = null
InitPublisher == InitEmpty /\ env = [DefaultEnv EXCEPT !.provider = FALSE]

NextPublisher ==
  \/ \E ok \in BOOLEAN : Initialize(ok)
  \/ \E ok \in BOOLEAN : Close(ok)
  \/ \E p \in SeqProcs, u \in {"u1", "u2"}, data \in RaceCreates :
       CreateBegin(p, Customer(u), data)
  \/ \E p \in SeqProcs : CreateExternal(p, "exists", "valid")
  \/ \E p \in SeqProcs : CreateSave(p)
  \/ \E p \in SeqProcs, r \in ReviewIds, u \in {"u1", "u2"} : DeleteLoad(p, r, u)
  \/ \E p \in SeqProcs : DeleteRemove(p)
  \/ \E p \in SeqProcs, o \in {"true", "false", "threw"} : Publish(p, o)
  \/ \E p \in Racers, op \in PublisherOps, o \in {"true", "false", "threw"} :
       OnlyRacer(p) /\ PublishReviewEvent(p, op, o)

SpecPublisher == InitPublisher /\ [][NextPublisher]_vars

----------------------------------------------------------------------------
(* The events of creations and deletions, on each transport *)

\* an initialised publisher on a provider of each family, with callers that
\* do or do not pass a trace id
InitEvents ==
  /\ reviews = << >>
  /\ nextId = 1
  /\ req = [p \in Procs |-> IdleReq]
  /\ env = DefaultEnv
  /\ trail = NoTrail
  /\ \E f \in Families, t \in BOOLEAN :
       mq = [NoMq EXCEPT !.family = f, !.singleton = 1, !.created = 1,
                         !.closes = <<0>>, !.made = 1, !.traced = t]

NextEvents ==
  \/ \E p \in SeqProcs, u \in {"u1", "u2"}, data \in LifecycleCreates :
       CreateBegin(p, Customer(u), data)
  \/ \E p \in SeqProcs, b \in {"valid", "invalid"} : CreateExternal(p, "exists", b)
  \/ \E p \in SeqProcs : CreateSave(p)
  \/ \E p \in SeqProcs, r \in ReviewIds, u \in {"u1", "u2"} : DeleteLoad(p, r, u)
  \/ \E p \in SeqProcs : DeleteRemove(p)
  \/ \E p \in SeqProcs, o \in {"true", "false", "threw"} : Publish(p, o)
  \/ \E p \in Racers, op \in PublisherOps : PublishReviewEvent(p, op, "true")

SpecEvents == InitEvents /\ [][NextEvents]_vars

----------------------------------------------------------------------------
(* Helpfulness counters *)

CountVotes(doc, voteType) ==
  Cardinality({i \in 1..Len(doc.userVotes) : doc.userVotes[i].vote = voteType})

CountersMatch(doc) ==
  /\ doc.helpful = CountVotes(doc, "helpful")
  /\ doc.notHelpful = CountVotes(doc, "notHelpful")
  /\ doc.helpful + doc.notHelpful = Len(doc.userVotes)

\* C1: with voteOnReview calls executed one at a time, every stored review's
\* helpful counter equals the number of its voter records whose vote is
\* helpful, its notHelpful counter the number whose vote is notHelpful, and
\* their sum the number of voter records.
C1_CountersMatchRecords == \A r \in DOMAIN reviews : CountersMatch(reviews[r])

\* a vote has just been saved on a review that went through three additions
\* and one retraction and now holds one vote of each category
C1_Witness ==
  /\ req[1].pc = "done" /\ req[1].op = "vote" /\ req[1].persisted
  /\ 1 \in DOMAIN reviews
  /\ reviews[1].v = 4
  /\ Len(reviews[1].userVotes) = 2
  /\ reviews[1].helpful = 1 /\ reviews[1].notHelpful = 1

\* the vote of the finished request p is what the stored review shows for its voter
VoteApplied(p) ==
  LET votes == reviews[req[p].rid].userVotes
      mine == {i \in 1..Len(votes) : votes[i].userId = req[p].user.userId} IN
  IF req[p].aop.kind = "splice"
    THEN mine = {}
    ELSE \E i \in mine : votes[i].vote = req[p].data.voteType

\* C2: when two voteOnReview calls of different users on one review interleave
\* (each loads the review before the other has saved) and both complete, no
\* update is lost: the review shows both votes and each counter equals the
\* number of voter records of its category.
C2_NoLostUpdate ==
  \A p \in Procs : \A q \in req[p].overlap :
    ( /\ req[p].pc = "done" /\ req[q].pc = "done"
      /\ req[p].op = "vote" /\ req[q].op = "vote"
      /\ req[p].persisted /\ req[q].persisted
      /\ req[p].user # req[q].user )
    => ( /\ VoteApplied(p) /\ VoteApplied(q)
         /\ CountersMatch(reviews[req[p].rid]) )

----------------------------------------------------------------------------
(* Creation *)

SamePair(a, b) == a.productId = b.productId /\ a.userId = b.userId

\* C3: in every reachable state, creations and deletions interleaving in any
\* way, at most one review exists for a (productId, userId) pair.
C3_OneReviewPerPair ==
  \A a, b \in DOMAIN reviews : SamePair(reviews[a], reviews[b]) => a = b

\* a creation passed the findOne check and was then refused by the index:
\* the other creation of the pair was saved between its check and its save
C3_Witness ==
  \E p \in Procs :
    /\ req[p].pc = "done" /\ req[p].op = "create" /\ req[p].dupKey
    /\ FindOne(req[p].data.productId, req[p].user.userId) # {}

\* C4: a createReview for a pair that already has a review, found by the
\* duplicate check or only at the save of an interleaved attempt, fails with a
\* 409 conflict, persists nothing and publishes no event; a 409 is given only
\* when a review of the pair was found.
C4_DuplicateIsConflict ==
  \A p \in Procs :
    (req[p].pc = "done" /\ req[p].op = "create"
       /\ ValidateUserCanCreateReview(req[p].user) = Pass)
    => /\ (req[p].found \/ req[p].dupKey)
            => /\ req[p].result = ErrorResponse(409, NoCode)
               /\ ~req[p].persisted
               /\ req[p].publish = "none"
       /\ req[p].result.status = 409 => req[p].found

IsAdminUser(user) == "admin" \in user.roles \/ user.isAdmin

\* C5: a finished createReview of an admin user (role or flag) has failed with
\* ADMIN_CANNOT_REVIEW whatever the other fields and the stored reviews; of a
\* non-admin user with isActive false, with USER_INACTIVE; any other user is
\* not refused with either code.  A refused creation persisted nothing and
\* published nothing, and no creation of such a user gets past the gate.
C5_UserGate ==
  \A p \in Procs :
    req[p].op = "create" =>
      LET user == req[p].user
          refused == IsAdminUser(user) \/ user.isActive = "false" IN
      /\ refused => /\ req[p].pc = "done"
                    /\ ~req[p].persisted
                    /\ req[p].publish = "none"
      /\ (req[p].pc = "done" /\ IsAdminUser(user))
           => req[p].result = ErrorResponse(403, "ADMIN_CANNOT_REVIEW")
      /\ (req[p].pc = "done" /\ ~IsAdminUser(user) /\ user.isActive = "false")
           => req[p].result = ErrorResponse(403, "USER_INACTIVE")
      /\ (req[p].pc = "done" /\ ~refused)
           => req[p].result.code \notin {"ADMIN_CANNOT_REVIEW", "USER_INACTIVE"}

\* an inactive admin asked for a second review of a product they reviewed,
\* with a body save() would refuse, and was told ADMIN_CANNOT_REVIEW
C5_Witness ==
  \E p \in Procs :
    /\ req[p].pc = "done" /\ req[p].op = "create"
    /\ IsAdminUser(req[p].user) /\ req[p].user.isActive = "false"
    /\ req[p].data.rating = 6
    /\ FindOne(req[p].data.productId, req[p].user.userId) # {}
    /\ req[p].result.code = "ADMIN_CANNOT_REVIEW"

\* the purchase was not verified: no order reference, a negative answer, or
\* an order service that cannot be reached
Unverified(r) ==
  \/ ~Truthy(r.data.orderReference)
  \/ ~env.invoker
  \/ r.ext.purchase \in {"invalid", "error"}

\* C6: a finished createReview that reached the purchase check (the user
\* gate, the duplicate check and the product check passed) has failed with
\* PURCHASE_REQUIRED exactly when the require-purchase policy is on and the
\* purchase was not verified; a creation refused so persisted nothing.
C6_PurchaseGate ==
  \A p \in Procs :
    (req[p].pc = "done" /\ req[p].op = "create")
    => /\ (req[p].ext # NoAnswers /\ req[p].result # ErrorResponse(404, NoCode))
            => ( (env.requirePurchase /\ Unverified(req[p]))
                 <=> req[p].result = ErrorResponse(403, "PURCHASE_REQUIRED") )
       /\ req[p].result.code = "PURCHASE_REQUIRED"
            => (~req[p].persisted /\ req[p].publish = "none" /\ req[p].ext # NoAnswers)

\* an order reference was given, the order service failed, the policy is on
C6_Witness ==
  \E p \in Procs :
    /\ req[p].pc = "done" /\ req[p].op = "create"
    /\ env.requirePurchase /\ env.invoker
    /\ Truthy(req[p].data.orderReference) /\ req[p].ext.purchase = "error"
    /\ req[p].result = ErrorResponse(403, "PURCHASE_REQUIRED")
    /\ reviews = << >>

----------------------------------------------------------------------------
(* The lifecycle *)

\* C7: a createReview, updateReview, deleteReview or approveReview whose write
\* succeeded reports success whatever the publish did, and the write stands.
C7_PublishFailureSwallowed ==
  \A p \in SeqProcs :
    (req[p].pc = "done" /\ req[p].persisted
       /\ req[p].op \in {"create", "update", "delete", "approve"})
    => /\ req[p].result.kind = "ok"
       /\ req[p].op = "create" => req[p].rid \in DOMAIN reviews
       /\ req[p].op = "delete" => req[p].rid \notin DOMAIN reviews
       /\ req[p].op = "approve" => reviews[req[p].rid].status = "approved"

\* a review was created and the publish of review.created threw
C7_Witness ==
  \E p \in SeqProcs :
    /\ req[p].pc = "done" /\ req[p].op = "create"
    /\ req[p].persisted /\ req[p].publish = "threw"
    /\ req[p].result = Success(201)

ContentFields == {"rating", "comment"}
MediaFields == {"images", "videos"}

\* C8: an updateReview by the owner that supplies rating or comment leaves the
\* review pending whatever its status was; one that supplies only images or
\* videos leaves the status as it was.
C8_ContentEditResetsStatus ==
  [][ \A r \in DOMAIN reviews, u \in Users, d \in UpdateInputs :
        (UpdateReview(1, r, u, d) /\ ~NotOwner(reviews[r], Str(u)))
        => /\ r \in DOMAIN reviews'
           /\ (d.supplied \cap ContentFields # {}) => reviews'[r].status = "pending"
           /\ (d.supplied \subseteq MediaFields) => reviews'[r].status = reviews[r].status
    ]_vars

\* C9: an updateReview or deleteReview by a user who is not the author has
\* been refused as forbidden with code NOT_OWNER, has written nothing and
\* published nothing; one by the author is not refused as forbidden.
C9_OnlyOwnerMayChange ==
  \A p \in SeqProcs :
    (req[p].pc = "done" /\ req[p].op \in {"update", "delete"})
    => /\ (req[p].rid \in DOMAIN reviews /\ NotOwner(reviews[req[p].rid], req[p].user.userId))
            => /\ req[p].result = ErrorResponse(403, "NOT_OWNER")
               /\ ~req[p].persisted
               /\ req[p].publish = "none"
       /\ (req[p].rid \in DOMAIN reviews /\ ~NotOwner(reviews[req[p].rid], req[p].user.userId))
            => req[p].result.status # 403

\* C10: a finished reject or hide without a reason has failed with code
\* REASON_REQUIRED and written nothing; with a reason it is not refused for
\* the reason; an approve of a stored review that is not approved succeeds.
C10_ReasonRequired ==
  \A p \in SeqProcs :
    req[p].pc = "done" =>
      /\ (req[p].op \in {"reject", "hide"} /\ ~Truthy(req[p].data.reason))
           => /\ req[p].result.kind # "ok"
              /\ req[p].result.code = "REASON_REQUIRED"
              /\ ~req[p].persisted
      /\ (req[p].op \in {"reject", "hide"} /\ Truthy(req[p].data.reason))
           => req[p].result # HttpFailure(400)
      /\ (req[p].op = "approve" /\ req[p].persisted) => req[p].result.kind = "ok"

----------------------------------------------------------------------------
(* Moderation of a review already in the target status *)

ModerationOps == {"approve", "reject", "hide"}

TargetStatus(op) ==
  CASE op = "approve" -> "approved"
    [] op = "reject" -> "rejected"
    [] op = "hide" -> "hidden"

----------------------------------------------------------------------------
(* Listings of one product while its reviews are moderated *)

\* every review is on product p1: review 1 by u1, five stars, approved and
\* verified; the others by the users after u1, pending, unverified, with
\* two and four stars
InitListing ==
  /\ reviews = [r \in ReviewIds |->
                  IF r = 1 THEN NewReview("p1", Str("u1"), 5, "t", "c", TRUE, "approved")
                  ELSE NewReview("p1", Str(IF r = 2 THEN "u2" ELSE "u3"),
                                 IF r = 2 THEN 2 ELSE 4, "t", "c", FALSE, "pending")]
  /\ nextId = MaxReviews + 1
  /\ req = [p \in Procs |-> IdleReq]
  /\ env = DefaultEnv
  /\ trail = NoTrail
  /\ mq = NoMq

\* the options of a listing: rating, status and verifiedOnly
ListingOptions ==
  [rating : {0, 5}, status : {"approved", "pending"}, verifiedOnly : BOOLEAN]

\* listings of both products between moderations by one administrator
NextListing ==
  \/ \E p \in SeqProcs, prod \in Products, o \in ListingOptions : GetProductReviews(p, prod, o)
  \/ \E p \in SeqProcs, r \in ReviewIds : ApproveReview(p, r, "u9")
  \/ \E p \in SeqProcs, r \in ReviewIds : HideReview(p, r, "u9", "spam")
  \/ \E p \in SeqProcs, ids \in SUBSET ReviewIds :
       BulkModerateReviews(p, ids, "reject", "u9", "spam")
  \/ \E p \in SeqProcs : ModerationSave(p)
  \/ \E p \in SeqProcs : Publish(p, "threw")

SpecListing == InitListing /\ [][NextListing]_vars

\* slot p takes a new request in this step (a request taken by another slot
\* changes at most the overlap history of p)
Invoked(p) ==
  /\ Free(p)
  /\ [req'[p] EXCEPT !.overlap = {}] # [req[p] EXCEPT !.overlap = {}]

\* C11: an approve, reject or hide of a stored review whose status already is
\* the one asked for ends at once with an error, leaves the whole collection
\* (status, audit fields) as it was, writes nothing and publishes nothing.
C11_SameStatusRejected ==
  [][ \A p \in SeqProcs, r \in ReviewIds, op \in ModerationOps :
        ( /\ Invoked(p)
          /\ req'[p].op = op /\ req'[p].rid = r
          /\ r \in DOMAIN reviews
          /\ reviews[r].status = TargetStatus(op) )
        => /\ req'[p].pc = "done"
           /\ req'[p].result.kind \in {"ErrorResponse", "http"}
           /\ req'[p].result.status = 400
           /\ ~req'[p].persisted
           /\ req'[p].publish = "none"
           /\ reviews' = reviews
    ]_vars

\* a rejected review was asked to be rejected again, with a reason
C11_Witness ==
  \E p \in SeqProcs :
    /\ req[p].pc = "done" /\ req[p].op = "reject"
    /\ Truthy(req[p].data.reason)
    /\ req[p].rid \in DOMAIN reviews
    /\ reviews[req[p].rid].status = "rejected"
    /\ req[p].result = ErrorResponse(400, NoCode)

----------------------------------------------------------------------------
(* Votes of the author *)

IsAuthor(doc, userId) == IdToString(doc.userId) = IdToString(userId)

\* C12: a finished voteOnReview of a stored review by its own author has been
\* refused as forbidden and has written nothing, and no voter record of any
\* review carries the id of the review's author.
C12_AuthorNeverVotes ==
  /\ \A p \in SeqProcs :
       ( /\ req[p].pc = "done" /\ req[p].op = "vote"
         /\ req[p].data.voteType \in VoteTypes
         /\ req[p].rid \in DOMAIN reviews
         /\ IsAuthor(reviews[req[p].rid], req[p].user.userId) )
       => (req[p].result.status = 403 /\ ~req[p].persisted)
  /\ \A r \in DOMAIN reviews : \A i \in 1..Len(reviews[r].userVotes) :
       ~IsAuthor(reviews[r], reviews[r].userVotes[i].userId)

----------------------------------------------------------------------------
(* Retraction and flip of a vote *)

\* the last two persisted votes are a first vote of a voter and the same
\* vote by the same voter on the same review
RoundTrip ==
  /\ Len(trail.votes) = 2
  /\ trail.votes[1].rid = trail.votes[2].rid
  /\ trail.votes[1].userId = trail.votes[2].userId
  /\ trail.votes[1].voteType = trail.votes[2].voteType
  /\ FindIndex(trail.votes[1].before.userVotes, trail.votes[1].userId) = 0

\* C13: when a voter without a vote on a review casts a vote and then casts
\* the same vote again, both counters and the voter records of the review are
\* exactly what they were before the first of the two votes.
C13_RetractionRoundTrip ==
  RoundTrip =>
    /\ trail.votes[1].rid \in DOMAIN reviews
    /\ Helpfulness(reviews[trail.votes[1].rid]) = trail.votes[1].before

\* u2 voted helpful and retracted it while another voter's record was stored
C13_Witness ==
  /\ RoundTrip
  /\ trail.votes[1].userId = Str("u2")
  /\ trail.votes[1].voteType = "helpful"
  /\ Len(trail.votes[1].before.userVotes) = 1
  /\ req[1].pc = "done" /\ req[1].persisted

\* the last persisted vote, and the position of its voter's earlier record
LastVote == trail.votes[Len(trail.votes)]

EarlierIndex == FindIndex(LastVote.before.userVotes, LastVote.userId)

\* the last persisted vote was cast by a voter whose record held the opposite
Flipped ==
  /\ Len(trail.votes) > 0
  /\ EarlierIndex > 0
  /\ LastVote.before.userVotes[EarlierIndex].vote # LastVote.voteType

\* C14: when a voter whose record holds one category votes the other one, the
\* old category's counter goes down by one, the new category's counter goes up
\* by one, and the voter records are the same ones in the same places except
\* that this voter's record now holds the new category.
C14_VoteFlip ==
  Flipped =>
    LET before == LastVote.before
        old == before.userVotes[EarlierIndex].vote
        now == reviews[LastVote.rid] IN
    /\ LastVote.rid \in DOMAIN reviews
    /\ now[old] = before[old] - 1
    /\ now[LastVote.voteType] = before[LastVote.voteType] + 1
    /\ Len(now.userVotes) = Len(before.userVotes)
    /\ now.userVotes = [before.userVotes EXCEPT ![EarlierIndex].vote = LastVote.voteType]
    /\ Cardinality({i \in 1..Len(now.userVotes) :
                      now.userVotes[i].userId = LastVote.userId}) = 1

\* u3 turned a notHelpful vote into helpful while u2's record stood first
C14_Witness ==
  /\ Flipped
  /\ LastVote.userId = Str("u3")
  /\ LastVote.voteType = "helpful"
  /\ EarlierIndex = 2
  /\ reviews[1].helpful = 2 /\ reviews[1].notHelpful = 0
  /\ req[1].pc = "done" /\ req[1].persisted

----------------------------------------------------------------------------
(* Deleted reviews *)

\* ids are handed out in order and not reused: an id below nextId that is
\* not in the collection belonged to a review that has been deleted
Gone(r) == r < nextId /\ r \notin DOMAIN reviews

\* the requests that get as far as looking the review up by its id: all but
\* a vote of an unknown type and a reject or hide without a reason
LooksUp(rq) ==
  \/ rq.op \in {"get", "update", "delete", "approve"}
  \/ rq.op = "vote" /\ rq.data.voteType \in VoteTypes
  \/ rq.op \in {"reject", "hide"} /\ Truthy(rq.data.reason)

\* C15: once a review is deleted, no step brings it back, not even the save
\* of a vote or a moderation that loaded it before the deletion; every
\* request on its id taken afterwards ends with 404 not-found; and the step
\* that removes a review changes no other review.
C15_DeletedStaysDeleted ==
  [][ /\ \A r \in ReviewIds : Gone(r) => r \notin DOMAIN reviews'
      /\ \A p \in Procs, r \in ReviewIds :
           (Invoked(p) /\ Gone(r) /\ req'[p].rid = r /\ LooksUp(req'[p]))
           => /\ req'[p].pc = "done"
              /\ req'[p].result = ErrorResponse(404, NoCode)
      /\ \A r \in DOMAIN reviews :
           r \notin DOMAIN reviews' =>
             \A o \in DOMAIN reviews \ {r} : o \in DOMAIN reviews' /\ reviews'[o] = reviews[o]
    ]_vars

\* a vote loaded review 1 before its deletion and saved after it: the save
\* failed, the review is gone and review 2 still holds its vote
C15_Witness ==
  \E p \in Procs :
    /\ req[p].pc = "done" /\ req[p].op = "vote" /\ req[p].rid = 1
    /\ req[p].result = RawError("DocumentNotFoundError")
    /\ Gone(1)
    /\ 2 \in DOMAIN reviews /\ reviews[2].helpful = 1

----------------------------------------------------------------------------
(* The event of an update, the status of a new review *)

\* C16: an updateReview by the author that supplies a rating is persisted and
\* hands the publisher a review.updated event, whose previousRating is the
\* rating stored before the write and whose rating is the one stored after it.
C16_UpdateEventPreviousRating ==
  \A p \in SeqProcs :
    ( /\ req[p].pc = "done" /\ req[p].op = "update"
      /\ "rating" \in req[p].data.supplied
      /\ req[p].rid \in DOMAIN reviews
      /\ IsAuthor(reviews[req[p].rid], req[p].user.userId) )
    => /\ req[p].persisted
       /\ req[p].publish # "none"
       /\ reviews[req[p].rid].rating = req[p].data.rating

\* C17: a review just created is approved when its purchase was verified and
\* the auto-approve-verified policy is on; otherwise it is pending when the
\* moderation-required policy is on and approved when it is off.
C17_InitialStatus ==
  \A p \in SeqProcs :
    (req[p].op = "create" /\ req[p].persisted /\ req[p].rid \in DOMAIN reviews)
    => reviews[req[p].rid].status =
         IF ~Unverified(req[p]) /\ env.autoApproveVerified THEN "approved"
         ELSE IF env.moderationRequired THEN "pending"
         ELSE "approved"

\* a verified purchase under both policies: approved although moderation is on
C17_Witness ==
  \E p \in SeqProcs :
    /\ req[p].pc = "done" /\ req[p].op = "create" /\ req[p].persisted
    /\ env.autoApproveVerified /\ env.moderationRequired
    /\ req[p].verified
    /\ req[p].rid \in DOMAIN reviews
    /\ reviews[req[p].rid].status = "approved"
    /\ reviews[req[p].rid].isVerifiedPurchase

----------------------------------------------------------------------------
(* What can change the status and the purchase flag of a stored review *)

Moderated == {"approved", "rejected", "hidden"}

\* slot p takes, in this step, an updateReview of review r by its author
UpdateByAuthor(p, r) ==
  /\ Invoked(p)
  /\ req'[p].op = "update" /\ req'[p].rid = r
  /\ IsAuthor(reviews[r], req'[p].user.userId)

\* C18: a step that turns an approved, rejected or hidden review pending is
\* an updateReview of that review by its author; no step of a moderation, a
\* bulk moderation, a vote or a product deletion does it.
C18_PendingOnlyByAuthorUpdate ==
  [][ \A r \in DOMAIN reviews :
        ( /\ reviews[r].status \in Moderated
          /\ r \in DOMAIN reviews'
          /\ reviews'[r].status = "pending" )
        => \E p \in Procs : UpdateByAuthor(p, r)
    ]_vars

\* a vote and a bulk moderation have both written review 2, pending at
\* first, and it carries the moderated status
C18_Witness ==
  \E p \in Racers :
    /\ req[p].pc = "done" /\ req[p].op = "vote" /\ req[p].rid = 2 /\ req[p].persisted
    /\ req[1].pc = "done" /\ req[1].op = "bulkModerate" /\ req[1].persisted
    /\ 2 \in req[1].data.reviewIds
    /\ 2 \in DOMAIN reviews
    /\ reviews[2].status \in Moderated
    /\ reviews[2].helpful = 1

\* C19: no step changes isVerifiedPurchase of a stored review: not an
\* updateReview, a vote, an approve, reject or hide, a bulk moderation or the
\* handling of a product deletion.
C19_VerifiedFlagFixed ==
  [][ \A r \in DOMAIN reviews :
        r \in DOMAIN reviews' =>
          reviews'[r].isVerifiedPurchase = reviews[r].isVerifiedPurchase
    ]_vars

\* the verified review 2 was hidden by a product deletion and voted on, and
\* still carries the flag
C19_Witness ==
  /\ req[1].pc = "done" /\ req[1].op = "productDeletion"
  /\ ~req[1].data.deleteReviews /\ req[1].data.productId = "p2"
  /\ 2 \in DOMAIN reviews
  /\ reviews[2].status = "hidden"
  /\ reviews[2].helpful = 1
  /\ reviews[2].isVerifiedPurchase

----------------------------------------------------------------------------
(* The publisher without a provider *)

\* slot p's publish returns or throws in this step: the publish that ends a
\* handler, or a publish method called by itself
PublishEnds(p) ==
  \/ req[p].pc = "publish" /\ req'[p].pc = "done"
  \/ Invoked(p) /\ req'[p].op \in PublisherOps

----------------------------------------------------------------------------
(* The transport providers *)

\* something went wrong in the attempt: the setup, the serialization or the send
Failed(a) == a.setup = "fail" \/ a.serial = "fail" \/ a.send \in {"threw", "reported"}

\* C21: a publishEvent of any provider has not thrown; it has returned true
\* only with the message handed to the transport, and false when the
\* connection setup, the serialization or the send failed.
C21_PublishEventNeverRaises ==
  \A p \in Procs :
    (req[p].pc = "done" /\ req[p].op = "publishEvent")
    => /\ req[p].result.kind = "ok"
       /\ req[p].publish \in {"true", "false"}
       /\ req[p].publish = "true" => req[p].sent
       /\ Failed(req[p].data) => req[p].publish = "false"

----------------------------------------------------------------------------
(* The provider factory *)

\* C22: since the last closeMessagingProvider, the factory has made at most
\* one provider and every getMessagingProvider has returned that one, also
\* when getMessagingProvider calls overlap.
C22_OneProviderInstance ==
  /\ mq.made <= 1
  /\ Cardinality(mq.handed) <= 1

\* slot p's call, taken in this step, is of operation op
Calls(p, op) == Invoked(p) /\ req'[p].op = op

\* slot p's call returns normally in this step
Returns(p) ==
  /\ req[p].pc # "done" \/ Invoked(p)
  /\ req'[p].pc = "done"
  /\ req'[p].result.kind = "ok"

\* C23: closeMessagingProvider without a singleton changes nothing and does
\* not fail; with one, it has closed that provider exactly once when it
\* returns and the singleton is cleared; the getMessagingProvider after it
\* makes a provider that did not exist before and was never closed.
C23_CloseIdempotent ==
  [][ \A p \in SeqProcs :
        /\ (Calls(p, "closeMessagingProvider") /\ mq.singleton = 0)
             => (mq' = mq /\ Returns(p))
        /\ (req[p].pc = "closing" /\ Returns(p))
             => (mq'.singleton = 0 /\ mq'.closes[req[p].returned] = 1)
        /\ (req'[p].op = "getMessagingProvider" /\ mq.singleton = 0 /\ Returns(p))
             => /\ req'[p].returned \notin 1..mq.created
                /\ mq'.singleton = req'[p].returned
                /\ mq'.closes[req'[p].returned] = 0
    ]_vars

\* two providers were made and closed in turn, each once, and the close
\* called after that found nothing to close
C23_Witness ==
  /\ req[1].pc = "done" /\ req[1].op = "closeMessagingProvider"
  /\ req[1].returned = 0 /\ req[1].result = Success(0)
  /\ mq.singleton = 0
  /\ mq.closes = <<1, 1>>

\* the value names one of the three families, in whatever case
NamesFamily(v) == v \in {"dapr", "DAPR", "RabbitMQ", "servicebus"}

\* C24: with MESSAGING_PROVIDER set to something that is none of dapr,
\* rabbitmq and servicebus in any case, getMessagingProvider throws when it
\* creates, no provider is ever made and the singleton stays unset; with a
\* family's name in either case it returns a provider.
C24_UnknownFamilyRejected ==
  \A p \in SeqProcs :
    (req[p].pc = "done" /\ req[p].op = "getMessagingProvider")
    => /\ (Truthy(mq.family) /\ ~NamesFamily(mq.family))
            => /\ req[p].result = RawError("Error")
               /\ mq.created = 0
               /\ mq.singleton = 0
       /\ NamesFamily(mq.family)
            => /\ req[p].result.kind = "ok"
               /\ req[p].returned \in 1..mq.created

\* MESSAGING_PROVIDER=kafka: the first getMessagingProvider threw
C24_Witness ==
  /\ mq.family = "kafka"
  /\ req[1].pc = "done" /\ req[1].op = "getMessagingProvider"
  /\ req[1].result = RawError("Error")
  /\ mq.created = 0 /\ mq.singleton = 0

----------------------------------------------------------------------------
(* The events of the lifecycle *)

\* C25: an approveReview that stored the approval has handed a
\* review.approved event to the publisher, which with a provider passes it to
\* the transport; and the review stays approved whatever the publish did.
C25_ApprovedEventAttempted ==
  \A p \in SeqProcs :
    (req[p].pc = "done" /\ req[p].op = "approve" /\ req[p].persisted)
    => /\ reviews[req[p].rid].status = "approved"
       /\ req[p].result.kind = "ok"
       /\ env.provider => req[p].sent

----------------------------------------------------------------------------
(* The codes of domain rejections *)

\* C26: a finished request that a domain rule refused carries the rule's
\* code: ADMIN_CANNOT_REVIEW for an admin's create, PURCHASE_REQUIRED for an
\* unverified create under the require-purchase policy, NOT_OWNER for an
\* update or delete by someone else than the author, REASON_REQUIRED for a
\* reject or hide without a reason, INVALID_ACTION for a bulk moderation
\* with an unknown action.
C26_DomainCodes ==
  \A p \in Procs :
    req[p].pc = "done" =>
      /\ (req[p].op = "create" /\ IsAdminUser(req[p].user))
           => req[p].result.code = "ADMIN_CANNOT_REVIEW"
      /\ (req[p].op = "create" /\ req[p].result.status = 403 /\ ~IsAdminUser(req[p].user)
            /\ req[p].user.isActive # "false")
           => req[p].result.code = "PURCHASE_REQUIRED"
      /\ (req[p].op \in {"update", "delete"} /\ req[p].rid \in DOMAIN reviews
            /\ NotOwner(reviews[req[p].rid], req[p].user.userId))
           => req[p].result.code = "NOT_OWNER"
      /\ (req[p].op \in {"reject", "hide"} /\ ~Truthy(req[p].data.reason))
           => req[p].result.code = "REASON_REQUIRED"
      /\ (req[p].op = "bulkModerate" /\ req[p].data.reviewIds # {}
            /\ req[p].data.action \notin ModerationOps)
           => req[p].result.code = "INVALID_ACTION"

----------------------------------------------------------------------------
(* The envelopes handed to the transport *)

\* the requests whose publish reached the transport
Published == {p \in Procs : req[p].pc = "done" /\ req[p].sent}

\* C27: every event handed to the transport goes to the topic
\* 'review-events', and its type is review.created for a create,
\* review.updated for an update, review.deleted for a delete.
C27_TopicAndType ==
  \A p \in Published :
    /\ req[p].event.topic = "review-events"
    /\ req[p].op \in {"create", "publishReviewCreated"} => req[p].event.type = "review.created"
    /\ req[p].op \in {"update", "publishReviewUpdated"} => req[p].event.type = "review.updated"
    /\ req[p].op \in {"delete", "publishReviewDeleted"} => req[p].event.type = "review.deleted"

\* a deleteReview and a direct publishReviewUpdated both reached the transport
C27_Witness ==
  /\ 1 \in Published /\ req[1].op = "delete"
  /\ req[1].event.type = "review.deleted" /\ req[1].event.topic = "review-events"
  /\ \E p \in Racers :
       /\ p \in Published /\ req[p].op = "publishReviewUpdated"
       /\ req[p].event.type = "review.updated"

\* C28: every event handed to the transport has a metadata block with a
\* correlationId and with the userId, on every provider and with or without
\* a trace id from the caller.
C28_MetadataComplete ==
  \A p \in Published :
    /\ req[p].event.metadata.userId # Absent
    /\ req[p].event.metadata.correlationId # Absent

\* C29: the review.deleted event handed to the transport is handed over
\* after the review is gone from the store, and carries the id, product,
\* author, rating and purchase flag of the document that was removed.
C29_DeletedEventSnapshot ==
  \A p \in Published :
    req[p].op = "delete" =>
      /\ req[p].rid \notin DOMAIN reviews
      /\ req[p].removed # NoDoc
      /\ req[p].event.reviewId = req[p].rid
      /\ req[p].event.productId = req[p].removed.productId
      /\ req[p].event.userId = IdToString(req[p].removed.userId)
      /\ req[p].event.rating = req[p].removed.rating
      /\ req[p].event.isVerifiedPurchase = req[p].removed.isVerifiedPurchase

\* review 2, rated 4, was removed while a vote on it was under way; the
\* vote failed and the event carries rating 4
C29_Witness ==
  /\ 1 \in Published /\ req[1].op = "delete" /\ req[1].rid = 2
  /\ req[1].removed # NoDoc
  /\ \E q \in Racers :
       /\ req[q].pc = "done" /\ req[q].op = "vote" /\ req[q].rid = 2
       /\ req[q].result = RawError("DocumentNotFoundError")
  /\ req[1].event.rating = 4
  /\ 2 \notin DOMAIN reviews

----------------------------------------------------------------------------
(* Bulk moderation *)

\* the bulk moderation has a known action, and a reason if it needs one
ValidBulk(rq) ==
  /\ rq.data.reviewIds # {}
  /\ rq.data.action \in ModerationOps
  /\ rq.data.action \in {"reject", "hide"} => Truthy(rq.data.reason)

\* C30: a valid bulk moderation does not fail, whether or not the listed
\* ids exist: the listed reviews that exist get the target status, no review
\* is added or removed, every review not listed stays as it was, and the
\* count returned is the number of reviews the call changed.
C30_BulkPartial ==
  [][ \A p \in SeqProcs :
        (Calls(p, "bulkModerate") /\ ValidBulk(req'[p]))
        => /\ req'[p].pc = "done"
           /\ req'[p].result = Success(200)
           /\ DOMAIN reviews' = DOMAIN reviews
           /\ \A r \in DOMAIN reviews :
                IF r \in req'[p].data.reviewIds
                  THEN reviews'[r].status = TargetStatus(req'[p].data.action)
                  ELSE reviews'[r] = reviews[r]
           /\ req'[p].returned = Cardinality({r \in DOMAIN reviews : reviews'[r] # reviews[r]})
    ]_vars

\* reviews 1 and 2 were listed, review 1 was gone: one review hidden, count 1
C30_Witness ==
  /\ req[1].pc = "done" /\ req[1].op = "bulkModerate"
  /\ req[1].data.reviewIds = {1, 2} /\ req[1].data.action = "hide"
  /\ req[1].result = Success(200)
  /\ DOMAIN reviews = {2}
  /\ reviews[2].status = "hidden"
  /\ req[1].returned = 1

----------------------------------------------------------------------------
(* Rating details of a product *)

\* the approved reviews of a product, in the state after the step
ApprovedOf(productId) ==
  {r \in DOMAIN reviews' : reviews'[r].productId = productId /\ reviews'[r].status = "approved"}

RECURSIVE RatingSum(_)
\* the sum of the ratings of a set of reviews, in the state after the step
RatingSum(S) ==
  IF S = {} THEN 0
  ELSE LET r == CHOOSE x \in S : TRUE IN reviews'[r].rating + RatingSum(S \ {r})

RECURSIVE Total(_, _)
\* the sum of the buckets k..MaxRating of a distribution
Total(dist, k) == IF k > MaxRating THEN 0 ELSE dist[k] + Total(dist, k + 1)

----------------------------------------------------------------------------
(* Single flight of the connection *)

\* the initialisations that have started and not settled
InFlight == {a \in DOMAIN mq.stage : ~Settled(a)}

\* C32: in a provider that holds a connection, publishes arriving together
\* start one initialisation and the others await it, so no two
\* initialisations are ever in flight and, as long as none has failed, no
\* second connection or client is made.
C32_SingleFlight ==
  /\ Cardinality(InFlight) <= 1
  /\ (\A a \in DOMAIN mq.stage : mq.stage[a] # "failed") => Cardinality(mq.open) <= 1

----------------------------------------------------------------------------
(* One voter record per voter *)

\* C33: every stored review holds at most one voter record for each voter,
\* so that no voter is counted under both vote types, also when two votes of
\* the same voter on the same review overlap.
C33_OneRecordPerVoter ==
  \A r \in DOMAIN reviews :
    \A i, j \in 1..Len(reviews[r].userVotes) :
      reviews[r].userVotes[i].userId = reviews[r].userVotes[j].userId => i = j

----------------------------------------------------------------------------
(* The product check of createReview *)

\* C34: a creation is refused with 404 only when the product service
\* answered that there is no such product; without the sidecar client, and
\* when the call fails in any other way whatever its message, the creation
\* goes on.
C34_ProductCheckBestEffort ==
  \A p \in Procs :
    (req[p].op = "create" /\ req[p].pc = "done" /\ req[p].ext.product # "none")
    => (req[p].result = ErrorResponse(404, NoCode)
        <=> env.invoker /\ req[p].ext.product \in {"missing", "error404"})

\* C35: a creation that has begun always ends, in a stored review or a
\* rejection, also when a product or purchase check is never answered.
C35_CreateTerminates ==
  \A p \in SeqProcs :
    (req[p].op = "create" /\ req[p].pc # "done") ~> (req[p].pc = "done")

----------------------------------------------------------------------------
(* The audit of a moderation *)

\* C36: when an approve, reject or hide is saved, the stored review names
\* the moderator who did it as its last modifier.
C36_ModeratorStamped ==
  [][ \A p \in Procs :
        (/\ req[p].pc = "save" /\ req[p].op \in ModerationOps
         /\ req'[p].persisted)
        => reviews'[req[p].rid].updatedBy = req[p].user.userId
    ]_vars

----------------------------------------------------------------------------
(* Bulk moderation against the single-review path *)

\* C37: a bulk moderation is accepted and refused as the single-review
\* path would for each listed review: an unknown action fails with
\* INVALID_ACTION, a reject or hide without a reason with REASON_REQUIRED,
\* a listed review already in the target status is left as it is, and a
\* refused request changes no review.
C37_BulkAsSingle ==
  [][ \A p \in SeqProcs :
        (Calls(p, "bulkModerate") /\ req'[p].data.reviewIds # {})
        => LET d == req'[p].data IN
           /\ d.action \notin ModerationOps => req'[p].result.code = "INVALID_ACTION"
           /\ (d.action \in {"reject", "hide"} /\ ~Truthy(d.reason))
              => req'[p].result.code = "REASON_REQUIRED"
           /\ req'[p].result.kind # "ok" => reviews' = reviews
           /\ d.action \in ModerationOps
              => \A r \in DOMAIN reviews \cap d.reviewIds :
                   reviews[r].status = TargetStatus(d.action) => reviews'[r] = reviews[r]
    ]_vars

----------------------------------------------------------------------------
(* Persist before publish *)

WriteOps == {"create", "update", "delete"}

\* C38: a create, update or delete reaches its publish only in the step
\* that wrote the store (the created review is stored in that step, the
\* deleted one is gone after it), the publisher is called only from there,
\* and a request that ended in a rejection or a failed write has published
\* nothing.
C38_PersistBeforePublish ==
  [][ \A p \in Procs :
        /\ (req'[p].op \in WriteOps /\ req'[p].pc = "publish" /\ req[p].pc # "publish")
           => /\ req'[p].persisted
              /\ req'[p].op = "create" => req'[p].rid \in DOMAIN reviews' \ DOMAIN reviews
              /\ req'[p].op = "delete" => req'[p].rid \notin DOMAIN reviews'
        /\ (req'[p].op \in WriteOps /\ req'[p].publish # "none" /\ req[p].publish = "none")
           => req[p].pc = "publish" /\ req[p].persisted
        /\ (req'[p].op \in WriteOps /\ req'[p].pc = "done" /\ req'[p].result.kind # "ok")
           => req'[p].publish = "none" /\ ~req'[p].sent /\ req'[p].event = NoEvent
    ]_vars

\* one creation has published its event while the other, the same user's
\* second review of the product, failed at the unique index
C38_Witness ==
  \E p, q \in Procs :
    /\ req[p].op = "create" /\ req[p].pc = "done" /\ req[p].persisted /\ req[p].sent
    /\ req[q].op = "create" /\ req[q].pc = "done" /\ req[q].dupKey
    /\ req[q].publish = "none"

----------------------------------------------------------------------------
(* The fields of a new review that the service decides *)

----------------------------------------------------------------------------
(* The connections of a RabbitMQProvider under publishes and closes *)

\* a publishEvent is running
Publishing == \E q \in Procs : req[q].op = "publishEvent" /\ req[q].pc = "wait"

\* C40: however publishEvent and close interleave and however connection
\* attempts fail, at most one broker connection is open; an attempt that
\* fails leaves neither its promise nor its channel behind, so that the next
\* publish tries again; and when a close ends while no publish is running
\* and no attempt is under way, no connection and no channel is open.
C40_RabbitConnections ==
  [][ /\ Cardinality(mq'.open) <= 1
      /\ \A a \in DOMAIN mq.stage :
           (mq.stage[a] # "failed" /\ mq'.stage[a] = "failed")
           => mq'.promise = 0 /\ mq'.channel # a
      /\ \A p \in Procs :
           (/\ req'[p].op = "close" /\ req'[p].pc = "done"
            /\ req[p].pc # "done" \/ Invoked(p)
            /\ ~Publishing' /\ InFlight' = {})
           => mq'.open = {} /\ mq'.channels = {}
    ]_vars

====
